---------------------------- MODULE Spec2Model ----------------------------
(***************************************************************************)
(* obs-ls-headless: the synchronization coordinator (SyncService) with its *)
(* collaborators: the Document Store client, the document assembler, the   *)
(* Note Repository and the State Store.                                    *)
(*                                                                         *)
(* A sync() invocation is an async function: it runs synchronously up to   *)
(* its first await and is resumed once per awaited collaborator call.      *)
(* Every action below is one such run-to-completion step.  The per-record  *)
(* loop of processDocuments awaits only the assembler, whose answers are   *)
(* caught per record and which touches no coordinator state, so the loop   *)
(* is folded into the step that receives the listing.                      *)
(***************************************************************************)
EXTENDS Integers, Sequences, FiniteSets, TLC

(***************************************************************************)
(* Bounds                                                                  *)
(***************************************************************************)
\* longest listing / change feed a Document Store call returns
MaxDocs == 2
\* number of sync() invocations that take the run guard in one behaviour
MaxPasses == 2
\* call slots: how many sync() invocations the model can hold in flight
MaxInFlight == 2
\* sync() invocations counted as finding the guard held, per pass
MaxSkipped == 1
\* longest children list of a record
MaxChildren == 2
\* most entries of an eden map, and its highest epoch
MaxEden == 2
\* most payloads handed to one decryptBatch call
MaxBatch == 2
\* assembleDocument / decryptBatch invocations in one behaviour
MaxRuns == 2
\* fields a caller assigns in an object that getStatus returned
MaxWrites == 1
\* notes in a repository that is searched
MaxNotes == 2
\* ids handed to one getDocuments call
MaxKeys == 2
\* writes other clients make to the database
MaxRemote == 2
\* the notes or ids one saveMany or deleteMany call is given
MaxBulk == 2
\* the listeners of an event bus
MaxListeners == 2
\* the plugins a PluginManager is configured with
MaxPlugins == 2

(***************************************************************************)
(* JavaScript values                                                       *)
(***************************************************************************)
\* an optional field that is not set (undefined)
Absent == "<undefined>"

\* JavaScript truthiness of an optional string: undefined and '' are falsy
Truthy(v) == v \notin {Absent, ""}

\* String.prototype.startsWith on ids kept as sequences of characters
StartsWith(s, prefix) ==
    /\ Len(s) >= Len(prefix)
    /\ SubSeq(s, 1, Len(prefix)) = prefix

\* String.prototype.includes for a single character
Includes(s, ch) == \E i \in 1..Len(s) : s[i] = ch

\* a sequence token as the store reports it: a number or a string
NumSeq(n) == [kind |-> "number", num |-> n, str |-> ""]
StrSeq(t) == [kind |-> "string", num |-> 0, str |-> t]

\* String(value) for the tokens above
Digits == <<"0", "1", "2", "3", "4", "5", "6", "7", "8", "9">>
JsString(v) ==
    IF v.kind = "number" THEN Digits[v.num + 1] ELSE v.str

\* the tokens a store can report
UpdateSeqs == {NumSeq(7), StrSeq("8-b")}

\* messages of the errors collaborators throw
Msgs == {"Database connection failed", "EACCES"}

(***************************************************************************)
(* Records of the Document Store                                           *)
(***************************************************************************)
IdA == <<"a">>
IdB == <<"b">>
IdChunk == <<"h", ":", "a">>
IdInternal == <<"p", "s", ":", "a">>
NoteIds == {IdA, IdB}

\* answers of the assembler that are not content
AsmNull == "<null>"
AsmThrow == "<throws>"
Contents == {"x"}

\* a well-formed note record; asm is the assembler's answer for the record
BaseDoc(id, asm) ==
    [_id |-> id, type |-> "newnote", path |-> "p.md", mtime |-> 1,
     deleted |-> FALSE, _deleted |-> FALSE, asm |-> asm]

\* the record with one field replaced, stamped with its own mtime
With(d, f, v, mtime) == [d EXCEPT ![f] = v, !.mtime = mtime]

\* Records the store can hold: well-formed notes, a note the assembler
\* answers null for and one it throws for, and records that depart from a
\* well-formed, assemblable note in exactly one field, so that each clause
\* of the filter is the only one that can reject them.
Docs ==
    {BaseDoc(id, asm) : id \in NoteIds, asm \in Contents}
    \cup {BaseDoc(IdA, AsmNull), BaseDoc(IdA, AsmThrow)}
    \cup {With(BaseDoc(IdA, "x"), "_id", IdChunk, 2),
          With(BaseDoc(IdA, "x"), "_id", IdInternal, 3),
          With(BaseDoc(IdA, "x"), "type", "plain", 4),
          With(BaseDoc(IdA, "x"), "type", "leaf", 5),
          With(BaseDoc(IdA, "x"), "type", Absent, 6),
          With(BaseDoc(IdA, "x"), "path", Absent, 7),
          With(BaseDoc(IdA, "x"), "path", "", 8),
          With(BaseDoc(IdA, "x"), "deleted", TRUE, 9),
          With(BaseDoc(IdA, "x"), "_deleted", TRUE, 10)}

\* all sequences over S of length at most n
RECURSIVE SeqsUpTo(_, _)
SeqsUpTo(S, n) ==
    IF n = 0 THEN {<<>>}
    ELSE LET shorter == SeqsUpTo(S, n - 1)
         IN  shorter \cup {Append(q, x) : q \in {r \in shorter : Len(r) = n - 1}, x \in S}

Listings == SeqsUpTo(Docs, MaxDocs)

\* an entry of the change feed; doc is read only when hasDoc holds
Change(id, deleted, hasDoc, doc) ==
    [id |-> id, deleted |-> deleted, hasDoc |-> hasDoc, doc |-> doc]

\* Entries a feed can carry: every record as a changed document, deletion
\* entries without a body (for note ids and for an internal id), a deletion
\* entry with a body, and a changed entry without a body.
Changes ==
    {Change(d._id, FALSE, TRUE, d) : d \in Docs}
    \cup {Change(id, TRUE, FALSE, BaseDoc(id, AsmNull)) : id \in NoteIds \cup {IdInternal}}
    \cup {Change(IdA, TRUE, TRUE, BaseDoc(IdA, "x")),
          Change(IdA, FALSE, FALSE, BaseDoc(IdA, AsmNull))}

\* the results of a getChanges response; its last_seq is any token
Feeds == SeqsUpTo(Changes, MaxDocs)

\* The responses drawn where the claims are about scheduling and failures
\* and not about the records: a note, a deletion and an internal record are
\* enough to take every path through a pass.
FewListings == SeqsUpTo({BaseDoc(IdA, "x")}, MaxDocs)
FewFeeds ==
    SeqsUpTo({Change(IdA, FALSE, TRUE, BaseDoc(IdA, "x")),
              Change(IdA, TRUE, FALSE, BaseDoc(IdA, AsmNull)),
              Change(IdInternal, FALSE, FALSE, BaseDoc(IdInternal, AsmNull))},
             MaxDocs)

(***************************************************************************)
(* Note Repository (MemoryNoteRepository): a map from id to note           *)
(***************************************************************************)
EmptyRepo == [id \in {} |-> 0]

\* Map.set(note.id, note)
MapSetKeepsFirst(m, note) ==
    [k \in DOMAIN m \cup {note.id} |-> IF k \in DOMAIN m THEN m[k] ELSE note]
MapSet(m, note) ==
    [k \in DOMAIN m \cup {note.id} |-> IF k = note.id THEN note ELSE m[k]]

\* Map.delete(id)
MapDeleteKeeps(m, id) == m
MapDelete(m, id) == [k \in DOMAIN m \ {id} |-> m[k]]

RECURSIVE saveMany(_, _)
saveMany(m, ns) ==
    IF ns = <<>> THEN m ELSE saveMany(MapSet(m, Head(ns)), Tail(ns))

RECURSIVE deleteMany(_, _)
deleteMany(m, ids) ==
    IF ids = <<>> THEN m ELSE deleteMany(MapDelete(m, Head(ids)), Tail(ids))

count(m) == Cardinality(DOMAIN m)

\* the value get returns for an id that is not stored (undefined), written
\* as a note without an id
NoNote == [id |-> <<>>, path |-> Absent, content |-> Absent, mtime |-> 0]

\* Map.get(id)
get(m, id) == IF id \in DOMAIN m THEN m[id] ELSE NoNote

(***************************************************************************)
(* State Store (JsonFileStorage): the persisted sync state                 *)
(***************************************************************************)
\* the empty state {}; a time of 0 stands for a field that is not set
EmptyState == [lastSeq |-> Absent, lastSyncTime |-> 0]

\* updateState: { ...currentState, ...partial } written back
updateStateLosesWrite(current, partial) == current
updateState(current, partial) ==
    [lastSeq |-> IF partial.lastSeq # Absent THEN partial.lastSeq ELSE current.lastSeq,
     lastSyncTime |-> IF partial.lastSyncTime # 0 THEN partial.lastSyncTime
                      ELSE current.lastSyncTime]

(***************************************************************************)
(* processDocuments: the surfacing filter and the per-record assembly      *)
(***************************************************************************)
\* the clauses of the filter, in the order the loop tests them
SkippedWithoutTypeTest(doc) ==
    \/ StartsWith(doc._id, <<"h", ":">>) \/ StartsWith(doc._id, <<"h", ":", "+">>)
    \/ Includes(doc._id, ":")
    \/ doc.deleted \/ doc._deleted
    \/ ~Truthy(doc.path)
Skipped(doc) ==
    \/ StartsWith(doc._id, <<"h", ":">>) \/ StartsWith(doc._id, <<"h", ":", "+">>)
    \/ Includes(doc._id, ":")
    \/ doc.deleted \/ doc._deleted
    \/ ~Truthy(doc.path)
    \/ ~Truthy(doc.type)
    \/ (doc.type # "newnote" /\ doc.type # "plain")

\* the note built from a record and its assembled content
\* (ctime and size are copied like mtime and are left out)
NoteOf(doc, content) ==
    [id |-> doc._id, path |-> doc.path, content |-> content, mtime |-> doc.mtime]

\* one iteration of the loop over documents
ProcessOneCountsFailures(acc, doc) ==
    IF Skipped(doc)
    THEN [acc EXCEPT !.skippedCount = @ + 1]
    ELSE IF doc.asm = AsmThrow \/ doc.asm = AsmNull
    THEN [acc EXCEPT !.errorCount = @ + 1,
                     !.processedCount = @ + 1,
                     !.assembled = @ \cup {doc}]
    ELSE [acc EXCEPT !.notesToSave = Append(@, NoteOf(doc, doc.asm)),
                     !.processedCount = @ + 1,
                     !.assembled = @ \cup {doc}]
ProcessOne(acc, doc) ==
    IF Skipped(doc)
    THEN [acc EXCEPT !.skippedCount = @ + 1]
    ELSE IF doc.asm = AsmThrow \/ doc.asm = AsmNull
    THEN [acc EXCEPT !.errorCount = @ + 1,
                     !.assembled = @ \cup {doc}]
    ELSE [acc EXCEPT !.notesToSave = Append(@, NoteOf(doc, doc.asm)),
                     !.processedCount = @ + 1,
                     !.assembled = @ \cup {doc}]

RECURSIVE ProcessLoop(_, _)
ProcessLoop(acc, documents) ==
    IF documents = <<>> THEN acc
    ELSE ProcessLoop(ProcessOne(acc, Head(documents)), Tail(documents))

\* the loop's result; the bulk write of notesToSave is the awaited step
\* that follows it
processDocuments(documents) ==
    ProcessLoop([notesToSave |-> <<>>, processedCount |-> 0,
                 skippedCount |-> 0, errorCount |-> 0,
                 \* the records handed to assembleDocument
                 assembled |-> {}], documents)

(***************************************************************************)
(* incrementalSync: classification of the change entries                   *)
(***************************************************************************)
ClassifyOneKeepsInternal(acc, change) ==
    IF change.deleted
       \/ (change.hasDoc /\ (change.doc.deleted \/ change.doc._deleted))
    THEN [acc EXCEPT !.deletedIds = Append(@, change.id)]
    ELSE IF change.hasDoc
    THEN [acc EXCEPT !.changedDocs = Append(@, change.doc)]
    ELSE acc
ClassifyOne(acc, change) ==
    IF Includes(change.id, ":") THEN acc
    ELSE IF change.deleted
            \/ (change.hasDoc /\ (change.doc.deleted \/ change.doc._deleted))
    THEN [acc EXCEPT !.deletedIds = Append(@, change.id)]
    ELSE IF change.hasDoc
    THEN [acc EXCEPT !.changedDocs = Append(@, change.doc)]
    ELSE acc

RECURSIVE ClassifyLoop(_, _)
ClassifyLoop(acc, results) ==
    IF results = <<>> THEN acc
    ELSE ClassifyLoop(ClassifyOne(acc, Head(results)), Tail(results))

Classify(results) ==
    ClassifyLoop([changedDocs |-> <<>>, deletedIds |-> <<>>], results)

(***************************************************************************)
(* Payloads: optional values, strings as sequences of characters, base64   *)
(***************************************************************************)
\* an optional value: <<>> when it is not set, <<v>> when it is
None == <<>>
Some(v) == <<v>>

B64Alphabet ==
    <<"A", "B", "C", "D", "E", "F", "G", "H", "I", "J", "K", "L", "M",
      "N", "O", "P", "Q", "R", "S", "T", "U", "V", "W", "X", "Y", "Z",
      "a", "b", "c", "d", "e", "f", "g", "h", "i", "j", "k", "l", "m",
      "n", "o", "p", "q", "r", "s", "t", "u", "v", "w", "x", "y", "z",
      "0", "1", "2", "3", "4", "5", "6", "7", "8", "9", "+", "/">>

B64Value(c) == CHOOSE v \in 0..63 : B64Alphabet[v + 1] = c

\* the bytes of a base64 string: six bits per character, up to the padding
RECURSIVE B64Bytes(_, _, _)
B64Bytes(s, buf, nbits) ==
    IF s = <<>> \/ Head(s) = "=" THEN <<>>
    ELSE LET v == buf * 64 + B64Value(Head(s))
             n == nbits + 6
         IN  IF n >= 8
             THEN <<v \div 2 ^ (n - 8)>> \o B64Bytes(Tail(s), v % 2 ^ (n - 8), n - 8)
             ELSE B64Bytes(Tail(s), v, n)

\* the character of a byte; the payloads below decode to capital letters
CharOf(b) == IF b \in 65..90 THEN B64Alphabet[b - 64] ELSE "?"

\* Buffer.from(data, 'base64').toString('utf-8')
Base64Decode(data) ==
    LET bytes == B64Bytes(data, 0, 0)
    IN  [i \in 1..Len(bytes) |-> CharOf(bytes[i])]

\* String.prototype.startsWith(HKDF_PREFIX)
isEncryptedByPercent(data) == StartsWith(data, <<"%">>)
isEncrypted(data) == StartsWith(data, <<"%", "=">>)

\* base64 of "A" and of "B"
PayloadA == <<"Q", "Q", "=", "=">>
PayloadB == <<"Q", "g", "=", "=">>
\* marked payloads: the ciphertext of "C" under the vault's passphrase and
\* salt, and a corrupt one
CipherC == <<"%", "=", "c">>
CipherBad == <<"%", "=", "x">>

\* the vault's passphrase, and the salt of its sync-parameters record
Passphrase == "pw"
SaltBase64 == <<"U", "w", "=", "=">>

\* the outcome of an awaited call: a value, or an error whose message is
\* the sequence of the parts of its template
Ok(v) == [ok |-> TRUE, value |-> v, error |-> <<>>]
Err(parts) == [ok |-> FALSE, value |-> <<>>, error |-> parts]

\* decryptHKDF of the octagonal-wheels library, by its outcomes: the
\* plaintext under the right passphrase and salt, an error otherwise
decryptHKDF(data, pass, salt) ==
    IF data = CipherC /\ pass = Passphrase /\ salt = B64Bytes(SaltBase64, 0, 0)
    THEN Ok(<<"C">>)
    ELSE Err(<<"hkdf: decryption error">>)

\* the payloads a leaf can carry: base64 text in a vault without a
\* passphrase; plain and marked payloads in a vault with one
LeafPayloads(pass) ==
    IF pass = "" THEN {PayloadA, PayloadB} ELSE {PayloadA, CipherC, CipherBad}

\* the sync-parameters record as the store can hold it: not there, without
\* the salt field, with an empty one, with the salt
SyncParamsDocs ==
    {None, Some([pbkdf2salt |-> None]), Some([pbkdf2salt |-> Some(<<>>)]),
     Some([pbkdf2salt |-> Some(SaltBase64)])}

(***************************************************************************)
(* State                                                                   *)
(***************************************************************************)
VARIABLES
    status,        \* SyncService.status
    syncInterval,  \* SyncService.syncInterval: TRUE when a timer handle is stored
    timers,        \* number of interval timers installed in the event loop
    notes,         \* the Note Repository's map
    stateStorage,  \* the State Store's persisted state
    calls,         \* the sync() invocations in flight, by call slot
    now,           \* the clock: it advances when a pass takes the guard
    initialized,   \* initialize() has run
    fetches,       \* Document Store calls issued: getAllDocuments, getChanges
    skipped,       \* sync() invocations that found the guard held, counted
                   \* since the guard was last taken
    done           \* the sync() invocation that held the guard last, once it
                   \* has returned and until the guard is taken again

\* the chunk assembler (ChunkAssembler) with its crypto adapter
\* (LiveSyncCrypto) and the part of the Document Store they read
VARIABLES
    passphrase,    \* the passphrase the assembler or the adapter was built
                   \* with; '' builds an assembler without an adapter
    syncParams,    \* the store's sync-parameters record
    pbkdf2Salt,    \* LiveSyncCrypto.pbkdf2Salt
    decrypts,      \* the decrypt() invocations, by slot
    batch,         \* the decryptBatch() invocation
    asm,           \* the assembleDocument() invocation
    storageCalls,  \* calls issued to the store: getDocument, getDocuments
    saltWrites,    \* assignments to pbkdf2Salt
    runs           \* invocations made by callers so far

asmVars == <<passphrase, syncParams, pbkdf2Salt, decrypts, batch, asm,
             storageCalls, saltWrites, runs>>

syncVars == <<status, syncInterval, timers, notes, stateStorage, calls, now,
              initialized, fetches, skipped, done>>

\* a caller of getStatus
VARIABLES
    returned,      \* the object getStatus returned to the caller
    dates          \* the time value of the Date object each pass creates

callerVars == <<returned, dates>>

\* a Note Repository that is searched
VARIABLES
    repository,    \* the implementation: "memory" or "disk"
    stored,        \* its notes, in the order getAll lists them
    query,         \* the query of the search() call made, if any
    hits           \* what that call returned

searchVars == <<repository, stored, query, hits>>

\* the CouchDBClient asked for records by their ids
VARIABLES
    couch,         \* what the database holds under each id
    bulk           \* the getDocuments() invocation

clientVars == <<couch, bulk>>

\* the database the Document Store client talks to
VARIABLES
    remote         \* the writes other clients made, in sequence order

remoteVars == <<remote>>

\* the response of the Document Store to getChanges
VARIABLES
    feed           \* the results of the response and the pass it answers

feedVars == <<feed>>

\* the State Store (JsonFileStorage) and its caller
VARIABLES
    stateFile,     \* the state file: not there, or its JSON text
    storeCall,     \* the call that returned last
    storePrior     \* the call that returned before it

storeVars == <<stateFile, storeCall, storePrior>>

\* the caller of a Note Repository (MemoryNoteRepository); the repository
\* itself is the variable notes
VARIABLES
    written,       \* per id, the note saved last and not deleted since
    repoCall       \* the call that returned last

repoVars == <<written, repoCall>>

\* the EventBus and the emit call in progress
VARIABLES
    listeners,     \* EventBus.listeners: per key, the set of its listeners
    subscribed,    \* the subscriptions made and not withdrawn
    emitting       \* the emit call made last

busVars == <<listeners, subscribed, emitting>>

\* the PluginManager and its callers
VARIABLES
    configs,       \* PluginManager.configs: the names of the configured plugins
    processes,     \* PluginManager.processes: the names that have a process
    handles,       \* PluginManager.handles: per name, the subscribed events
    starting,      \* the startAll call made last
    managerCall    \* the broadcast or stopAll call made last

pluginVars == <<configs, processes, handles, starting, managerCall>>

\* the variables of the components beside the synchronisation
lastVars == <<repoVars, busVars, pluginVars>>

\* the variables of the sections that follow the database
laterVars == <<feedVars, storeVars, lastVars>>

\* the variables outside the coordinator, the assembler and the adapter
restVars == <<callerVars, searchVars, clientVars, remoteVars, laterVars>>

vars == <<syncVars, asmVars, restVars>>

Slots == 1..MaxInFlight

\* the status object the constructor builds; 0 stands for a null time
InitialStatus ==
    [isRunning |-> FALSE, lastSyncTime |-> 0, lastSyncSuccess |-> FALSE,
     documentsCount |-> 0, lastSeq |-> Absent, error |-> Absent]

\* the snapshot a pass keeps of what it found when it took the guard
Snapshot ==
    [notes |-> notes, stateStorage |-> stateStorage, lastSeq |-> status.lastSeq,
     lastSyncTime |-> status.lastSyncTime, error |-> status.error,
     fetches |-> fetches]
NoSnapshot ==
    [notes |-> EmptyRepo, stateStorage |-> EmptyState, lastSeq |-> Absent,
     lastSyncTime |-> 0, error |-> Absent,
     fetches |-> [getAllDocuments |-> 0, getChanges |-> 0]]

\* an empty call slot
IdleCall ==
    [pc |-> "idle", origin |-> Absent, mode |-> Absent, since |-> Absent,
     notesToSave |-> <<>>, processedCount |-> 0, deletedIds |-> <<>>,
     last_seq |-> StrSeq(""), partial |-> EmptyState,
     \* what the model records about the invocation
     pass |-> 0, pre |-> NoSnapshot, empty |-> FALSE,
     okCount |-> 0, badCount |-> 0, filtered |-> 0,
     strict |-> TRUE, saved |-> 0, deleted |-> 0, persisted |-> 0,
     listed |-> {}, gone |-> {},
     at |-> Absent, error |-> Absent, propagates |-> FALSE]

InFlight == {s \in Slots : calls[s].pc # "idle"}

\* what an earlier run of the process can have left in the repository
InitialRepos == {EmptyRepo, MapSet(EmptyRepo, NoteOf(BaseDoc(IdA, "x"), "x"))}

\* what an earlier run can have left in the State Store
InitialStates ==
    {EmptyState} \cup {[lastSeq |-> JsString(u), lastSyncTime |-> 0] : u \in UpdateSeqs}

DSlots == 1..MaxBatch

\* an empty decrypt slot
IdleDecrypt ==
    [pc |-> "idle", owner |-> Absent, data |-> <<>>, salt |-> <<>>,
     outcome |-> Ok(<<>>),
     \* what the model records: the store calls counted and the cache
     \* found when the invocation started, whether the store had answered
     \* without a salt by then, and whether the invocation asked the store
     pre |-> 0, cached |-> FALSE, afterNoSalt |-> FALSE, asked |-> FALSE]

\* outOfOrder is what the model records: a decrypt of the batch has settled
\* before one of an earlier input
IdleBatch ==
    [pc |-> "idle", chunks |-> <<>>, results |-> <<>>, error |-> <<>>,
     outOfOrder |-> FALSE]

\* a record without a source of content
NoDoc == [data |-> None, eden |-> None, children |-> None]

IdleAsm ==
    [pc |-> "idle", doc |-> NoDoc, strategy |-> Absent, items |-> <<>>,
     chunkDocs |-> <<>>, i |-> 1, chunks |-> <<>>, outcome |-> Ok(<<>>),
     isNull |-> FALSE,
     \* what the model records: the payloads handed to the decoder, the
     \* bulk fetches issued, and the bulk fetches counted at the call
     decoded |-> <<>>, fetched |-> <<>>, pre |-> 0]

StatusFields ==
    {"isRunning", "lastSyncTime", "lastSyncSuccess", "documentsCount",
     "lastSeq", "error"}

\* no object has been returned; alias: the object is this.status itself;
\* at and written are what the model records: the status when the object
\* was returned, and the fields the caller has assigned since
NoHandle ==
    [held |-> FALSE, alias |-> FALSE, obj |-> InitialStatus,
     at |-> InitialStatus, written |-> {}]

\* the Date objects keep the time they were created with
NoCaller ==
    /\ returned = NoHandle
    /\ dates = [t \in 1..MaxPasses |-> t]

\* no coordinator has been built
NoCoordinator ==
    /\ status = InitialStatus
    /\ syncInterval = FALSE
    /\ timers = 0
    /\ notes = EmptyRepo
    /\ stateStorage = EmptyState
    /\ calls = [s \in Slots |-> IdleCall]
    /\ now = 0
    /\ initialized = FALSE
    /\ fetches = [getAllDocuments |-> 0, getChanges |-> 0]
    /\ skipped = 0
    /\ done = IdleCall

\* no repository is searched
NoSearch ==
    /\ repository = "memory"
    /\ stored = <<>>
    /\ query = None
    /\ hits = <<>>

\* the ids a bulk fetch asks for
BulkIds == {"h:a", "h:b"}

\* no invocation; fetches counts the calls of db.fetch, threw is what the
\* model records: db.fetch rejected
IdleBulk ==
    [pc |-> "idle", ids |-> <<>>, outcome |-> Ok(<<>>), fetches |-> 0,
     threw |-> FALSE]

\* no client is asked
NoClient ==
    /\ couch = [id \in BulkIds |-> "missing"]
    /\ bulk = IdleBulk

\* a database nobody has written to
NoRemote == remote = <<>>

\* no response has been built
NoFeed == feed = [pass |-> 0, results |-> <<>>]

\* no call of the State Store has returned
NoStoreCall == [op |-> "none", arg |-> <<>>, out |-> <<>>, before |-> None]

\* a State Store nobody has used: no file
NoStore ==
    /\ stateFile = None
    /\ storeCall = NoStoreCall
    /\ storePrior = NoStoreCall

\* the ids the callers of a repository use
RepoIds == NoteIds \cup {<<"c">>}

\* no call of the Note Repository has returned
NoRepoCall == [op |-> "none", arg |-> <<>>, out |-> <<>>, before |-> EmptyRepo]

\* a Note Repository nobody has called
NoRepo ==
    /\ written = [id \in RepoIds |-> None]
    /\ repoCall = NoRepoCall

\* no emit call has been made
NoEmit ==
    [state |-> "none", type |-> "", targets |-> {}, invocations |-> <<>>,
     outcomes |-> <<>>, logged |-> {}]

\* an EventBus as its constructor leaves it
NoBus ==
    /\ listeners = [key \in {} |-> {}]
    /\ subscribed = {}
    /\ emitting = NoEmit

\* no startAll call has been made
NoStartAll == [pc |-> "idle", i |-> 0, outcomes |-> <<>>, why |-> ""]

\* neither broadcast nor stopAll has been called
NoManagerCall ==
    [op |-> "none", state |-> "none", type |-> "", sent |-> {}, failed |-> {},
     delivered |-> {}, prior |-> "none"]

\* a PluginManager without plugins that nobody has called
NoPlugins ==
    /\ configs = <<>>
    /\ processes = {}
    /\ handles = [name \in {} |-> {}]
    /\ starting = NoStartAll
    /\ managerCall = NoManagerCall

NoLast == NoRepo /\ NoBus /\ NoPlugins

NoLater == NoFeed /\ NoStore /\ NoLast

\* the components of the other sections are not in use
NoRest == NoCaller /\ NoSearch /\ NoClient /\ NoRemote /\ NoLater

\* no call has been issued; noSalt: getDocument has answered with no
\* sync-parameters record, or with one that lacks the salt
NoStorageCalls == [getDocument |-> 0, getDocuments |-> 0, noSalt |-> FALSE]

\* no assembler and no adapter has been built
NoAssembler ==
    /\ passphrase = ""
    /\ syncParams = None
    /\ pbkdf2Salt = None
    /\ decrypts = [k \in DSlots |-> IdleDecrypt]
    /\ batch = IdleBatch
    /\ asm = IdleAsm
    /\ storageCalls = NoStorageCalls
    /\ saltWrites = 0
    /\ runs = 0

\* the service as constructed, over a repository and a State Store that
\* hold one of repos and one of states
InitOver(repos, states) ==
    /\ NoAssembler
    /\ NoRest
    /\ status = InitialStatus
    /\ syncInterval = FALSE
    /\ timers = 0
    /\ notes \in repos
    /\ stateStorage \in states
    /\ calls = [s \in Slots |-> IdleCall]
    /\ now = 0
    /\ initialized = FALSE
    /\ fetches = [getAllDocuments |-> 0, getChanges |-> 0]
    /\ skipped = 0
    /\ done = IdleCall

Init == InitOver(InitialRepos, InitialStates)

\* a record the specification lets through as a note: it has a path, is of
\* type newnote or plain, carries no deletion marker, and its id neither
\* contains ':' nor starts with 'h:'
Surfaceable(d) ==
    /\ d.path \notin {Absent, ""}
    /\ d.type \in {"newnote", "plain"}
    /\ ~d.deleted /\ ~d._deleted
    /\ \A i \in 1..Len(d._id) : d._id[i] # ":"
    /\ ~(Len(d._id) >= 2 /\ d._id[1] = "h" /\ d._id[2] = ":")

\* positions of a listing whose record is a note and assembles to content
OkAt(documents) ==
    {i \in 1..Len(documents) : Surfaceable(documents[i]) /\ documents[i].asm \in Contents}

\* positions of a listing whose record is a note and fails to assemble
BadAt(documents) ==
    {i \in 1..Len(documents) : Surfaceable(documents[i]) /\ documents[i].asm \notin Contents}

\* positions of a listing whose record is not a note
FilteredAt(documents) ==
    {i \in 1..Len(documents) : ~Surfaceable(documents[i])}

\* ids of the records of a listing that are live upstream
ListedLive(documents) ==
    {documents[i]._id : i \in {j \in 1..Len(documents) :
        ~documents[j].deleted /\ ~documents[j]._deleted}}

\* ids of the records of a listing that carry a deletion marker
ListedGone(documents) ==
    {documents[i]._id : i \in {j \in 1..Len(documents) :
        documents[j].deleted \/ documents[j]._deleted}}

\* ids of the entries of a feed that report a deletion, by the entry's own
\* flag or by a marker on its body
FeedGone(results) ==
    {results[i].id : i \in {j \in 1..Len(results) :
        \/ results[j].deleted
        \/ results[j].hasDoc /\ (results[j].doc.deleted \/ results[j].doc._deleted)}}

(***************************************************************************)
(* SyncService: status updates                                             *)
(***************************************************************************)
\* the run guard tested by sync(), fullSync() and incrementalSync()
GuardNeverHeld(st) == FALSE
GuardHeld(st) == st.isRunning

\* the finally block
ReleaseForgotten(st) == st
Release(st) == [st EXCEPT !.isRunning = FALSE]

\* the catch block
CatchKeepsSuccess(st, msg) == [st EXCEPT !.error = msg]
Catch(st, msg) == [st EXCEPT !.lastSyncSuccess = FALSE, !.error = msg]

\* the success update: time, flag, count, delete status.error
SucceedKeepsError(st, n) ==
    [st EXCEPT !.lastSyncTime = now, !.lastSyncSuccess = TRUE,
               !.documentsCount = n]
Succeed(st, n) ==
    [st EXCEPT !.lastSyncTime = now, !.lastSyncSuccess = TRUE,
               !.documentsCount = n, !.error = Absent]

\* the state handed to updateState
Cursor(st) == [lastSeq |-> st.lastSeq, lastSyncTime |-> now]

\* the call returns: its slot is freed and the model keeps its record
Return(s, call, result, msg) ==
    /\ calls' = [calls EXCEPT ![s] = IdleCall]
    /\ done' = [call EXCEPT !.pc = result, !.error = msg,
                            !.notesToSave = <<>>, !.partial = EmptyState]

(***************************************************************************)
(* SyncService.initialize                                                  *)
(***************************************************************************)
Initialize ==
    /\ ~initialized
    /\ initialized' = TRUE
    /\ status' = IF Truthy(stateStorage.lastSeq)
                 THEN [status EXCEPT !.lastSeq = stateStorage.lastSeq]
                 ELSE status
    /\ UNCHANGED <<asmVars, restVars, syncInterval, timers, notes, stateStorage, calls, now,
                   fetches, skipped, done>>

(***************************************************************************)
(* SyncService.sync, up to the first await of fullSync / incrementalSync   *)
(***************************************************************************)
\* lines 95-101 of sync(): full without a cursor, incremental with one
ChooseModeFull(st) == "full"
ChooseMode(st) == IF ~Truthy(st.lastSeq) THEN "full" ELSE "incremental"

\* the lowest free call slot
FreeSlot == CHOOSE s \in Slots : calls[s].pc = "idle" /\ \A t \in Slots : t < s => calls[t].pc # "idle"

SyncSkipMarksFailure(origin) ==
    IF GuardHeld(status)
    THEN /\ initialized
         /\ skipped < MaxSkipped
         /\ skipped' = skipped + 1
         /\ status' = [status EXCEPT !.lastSyncSuccess = FALSE]
         /\ UNCHANGED <<calls, now, fetches, done>>
    ELSE /\ initialized
         /\ now < MaxPasses
         /\ \E s \in Slots : calls[s].pc = "idle"
         /\ LET mode == ChooseMode(status)
                call == [IdleCall EXCEPT
                           !.pc = IF mode = "full" THEN "getAllDocuments" ELSE "getChanges",
                           !.origin = origin, !.mode = mode,
                           !.since = IF mode = "full" THEN Absent ELSE status.lastSeq,
                           !.pass = now + 1, !.pre = Snapshot]
            IN  /\ calls' = [calls EXCEPT ![FreeSlot] = call]
                /\ fetches' = IF mode = "full"
                              THEN [fetches EXCEPT !.getAllDocuments = @ + 1]
                              ELSE [fetches EXCEPT !.getChanges = @ + 1]
         /\ status' = [status EXCEPT !.isRunning = TRUE]
         /\ now' = now + 1
         /\ done' = IdleCall
         /\ skipped' = 0
Sync(origin) ==
    IF GuardHeld(status)
    THEN /\ initialized
         /\ skipped < MaxSkipped
         /\ skipped' = skipped + 1
         /\ UNCHANGED <<status, calls, now, fetches, done>>
    ELSE /\ initialized
         /\ now < MaxPasses
         /\ \E s \in Slots : calls[s].pc = "idle"
         /\ LET mode == ChooseMode(status)
                call == [IdleCall EXCEPT
                           !.pc = IF mode = "full" THEN "getAllDocuments" ELSE "getChanges",
                           !.origin = origin, !.mode = mode,
                           !.since = IF mode = "full" THEN Absent ELSE status.lastSeq,
                           !.pass = now + 1, !.pre = Snapshot]
            IN  /\ calls' = [calls EXCEPT ![FreeSlot] = call]
                /\ fetches' = IF mode = "full"
                              THEN [fetches EXCEPT !.getAllDocuments = @ + 1]
                              ELSE [fetches EXCEPT !.getChanges = @ + 1]
         /\ status' = [status EXCEPT !.isRunning = TRUE]
         /\ now' = now + 1
         /\ done' = IdleCall
         /\ skipped' = 0

\* sync() invoked by a caller outside the service (API route, script)
ManualSync ==
    /\ Sync("manual")
    /\ UNCHANGED <<asmVars, restVars, syncInterval, timers, notes, stateStorage, initialized>>

(***************************************************************************)
(* SyncService.startAutoSync / stopAutoSync and the interval callback      *)
(***************************************************************************)
StartAutoSyncUnguarded ==
    IF ~initialized
    THEN UNCHANGED vars
    ELSE /\ syncInterval' = TRUE
         /\ timers' = timers + 1
         /\ Sync("initial")
         /\ UNCHANGED <<asmVars, restVars, notes, stateStorage, initialized>>
StartAutoSync ==
    IF ~initialized \/ syncInterval
    THEN UNCHANGED vars
    ELSE /\ syncInterval' = TRUE
         /\ timers' = timers + 1
         /\ Sync("initial")
         /\ UNCHANGED <<asmVars, restVars, notes, stateStorage, initialized>>

StopAutoSyncKeepsTimer ==
    IF initialized /\ syncInterval
    THEN /\ syncInterval' = FALSE
         /\ UNCHANGED <<asmVars, restVars, status, timers, notes, stateStorage, calls, now,
                        initialized, fetches, skipped, done>>
    ELSE UNCHANGED vars
StopAutoSync ==
    IF initialized /\ syncInterval
    THEN /\ syncInterval' = FALSE
         /\ timers' = timers - 1
         /\ UNCHANGED <<asmVars, restVars, status, notes, stateStorage, calls, now,
                        initialized, fetches, skipped, done>>
    ELSE UNCHANGED vars

TimerTick ==
    /\ timers > 0
    /\ Sync("timer")
    /\ UNCHANGED <<asmVars, restVars, syncInterval, timers, notes, stateStorage, initialized>>

(***************************************************************************)
(* fullSync and incrementalSync, resumed after each awaited call           *)
(***************************************************************************)
\* lines 222-233 of incrementalSync: advance the cursor, mark success
AdvanceKeepsCursor(st, call) == Succeed(st, call.processedCount)
Advance(st, call) ==
    [Succeed(st, call.processedCount) EXCEPT !.lastSeq = JsString(call.last_seq)]

\* the call of incrementalSync that follows processDocuments
AfterProcessSkipsDelete(deletedIds) == "updateState"
AfterProcess(deletedIds) ==
    IF Len(deletedIds) > 0 THEN "deleteMany" ELSE "updateState"

\* the pass moves on to call, awaiting call.pc; on the way to updateState
\* the incremental pass updates the status and builds the partial state
\* (values are bound once with \E over a singleton)
ProceedAdvancesEarly(s, next) ==
    \E call \in {next} :
    \E st \in {IF call.mode = "incremental" THEN Advance(status, call) ELSE status} :
        /\ status' = st
        /\ calls' = [calls EXCEPT ![s] =
                       IF call.pc = "updateState"
                       THEN [call EXCEPT !.partial = Cursor(st)] ELSE call]
Proceed(s, next) ==
    \E call \in {next} :
    \E st \in {IF call.mode = "incremental" /\ call.pc = "updateState"
               THEN Advance(status, call) ELSE status} :
        /\ status' = st
        /\ calls' = [calls EXCEPT ![s] =
                       IF call.pc = "updateState"
                       THEN [call EXCEPT !.partial = Cursor(st)] ELSE call]

GetAllDocumentsReturns(s, listings) ==
    /\ calls[s].pc = "getAllDocuments"
    /\ \E documents \in listings :
       \E r \in {processDocuments(documents)} :
         Proceed(s, [calls[s] EXCEPT
             !.pc = IF Len(r.notesToSave) > 0 THEN "saveMany" ELSE "getDatabaseInfo",
             !.notesToSave = r.notesToSave,
             !.processedCount = r.processedCount,
             !.strict = \A d \in r.assembled : Surfaceable(d),
             !.listed = ListedLive(documents),
             !.gone = ListedGone(documents),
             !.okCount = Cardinality(OkAt(documents)),
             !.badCount = Cardinality(BadAt(documents)),
             !.filtered = Cardinality(FilteredAt(documents))])
    /\ UNCHANGED <<asmVars, restVars, syncInterval, timers, notes, stateStorage, now, initialized,
                   fetches, skipped, done>>

\* the feed is one of feeds and its last_seq one of seqs
GetChangesAnswers(s, feeds, seqs) ==
    /\ calls[s].pc = "getChanges"
    /\ \E results \in feeds :
         IF Len(results) = 0
         THEN /\ status' = Release(Succeed(status, 0))
              /\ Return(s, [calls[s] EXCEPT !.empty = TRUE], "resolved", Absent)
         ELSE \E c \in {Classify(results)} :
              \E r \in {IF Len(c.changedDocs) > 0
                        THEN processDocuments(c.changedDocs)
                        ELSE processDocuments(<<>>)} :
              \E call \in {[calls[s] EXCEPT
                             !.pc = IF Len(r.notesToSave) > 0 THEN "saveMany"
                                    ELSE AfterProcess(c.deletedIds),
                             !.notesToSave = r.notesToSave,
                             !.processedCount = r.processedCount,
                             !.deletedIds = c.deletedIds,
                             !.strict = \A d \in r.assembled : Surfaceable(d),
                             !.gone = FeedGone(results),
                             !.okCount = Cardinality(OkAt(c.changedDocs)),
                             !.badCount = Cardinality(BadAt(c.changedDocs)),
                             !.filtered = Cardinality(FilteredAt(c.changedDocs))]} :
              \E last_seq \in seqs :
                  /\ Proceed(s, [call EXCEPT !.last_seq = last_seq])
                  /\ UNCHANGED done
    /\ UNCHANGED <<asmVars, restVars, syncInterval, timers, notes, stateStorage, now, initialized,
                   fetches, skipped>>

GetChangesReturns(s, feeds) == GetChangesAnswers(s, feeds, UpdateSeqs)

SaveManyReturns(s) ==
    /\ calls[s].pc = "saveMany"
    /\ notes' = saveMany(notes, calls[s].notesToSave)
    /\ LET call == [calls[s] EXCEPT !.saved = @ + 1]
       IN  Proceed(s, [call EXCEPT
               !.pc = IF call.mode = "full" THEN "getDatabaseInfo"
                      ELSE AfterProcess(call.deletedIds)])
    /\ UNCHANGED <<asmVars, restVars, syncInterval, timers, stateStorage, now, initialized,
                   fetches, skipped, done>>

DeleteManyReturns(s) ==
    /\ calls[s].pc = "deleteMany"
    /\ notes' = deleteMany(notes, calls[s].deletedIds)
    /\ Proceed(s, [calls[s] EXCEPT !.deleted = @ + 1, !.pc = "updateState"])
    /\ UNCHANGED <<asmVars, restVars, syncInterval, timers, stateStorage, now, initialized,
                   fetches, skipped, done>>

\* the update_seq of the reply is one of seqs
GetDatabaseInfoAnswers(s, seqs) ==
    /\ calls[s].pc = "getDatabaseInfo"
    /\ \E update_seq \in seqs :
         /\ status' = [status EXCEPT !.lastSeq = JsString(update_seq)]
         /\ calls' = [calls EXCEPT ![s].pc = "count"]
    /\ UNCHANGED <<asmVars, restVars, syncInterval, timers, notes, stateStorage, now, initialized,
                   fetches, skipped, done>>

GetDatabaseInfoReturns(s) == GetDatabaseInfoAnswers(s, UpdateSeqs)

CountReturns(s) ==
    /\ calls[s].pc = "count"
    /\ IF calls[s].mode = "full"
       THEN LET st == Succeed(status, calls[s].processedCount)
            IN  /\ status' = st
                /\ calls' = [calls EXCEPT ![s].pc = "updateState",
                                          ![s].partial = Cursor(st)]
                /\ UNCHANGED done
       ELSE /\ status' = Release(status)
            /\ Return(s, calls[s], "resolved", Absent)
    /\ UNCHANGED <<asmVars, restVars, syncInterval, timers, notes, stateStorage, now, initialized,
                   fetches, skipped>>

UpdateStateReturns(s) ==
    /\ calls[s].pc = "updateState"
    /\ stateStorage' = updateState(stateStorage, calls[s].partial)
    /\ LET call == [calls[s] EXCEPT !.persisted = @ + 1]
       IN  IF call.mode = "full"
           THEN /\ status' = Release(status)
                /\ Return(s, call, "resolved", Absent)
           ELSE /\ status' = status
                /\ calls' = [calls EXCEPT ![s] = [call EXCEPT !.pc = "count"]]
                /\ UNCHANGED done
    /\ UNCHANGED <<asmVars, restVars, syncInterval, timers, notes, now, initialized,
                   fetches, skipped>>

\* the rejection of sync() is handled by the catch callbacks that
\* startAutoSync attaches to its own two invocations
CaughtByNone(origin) == FALSE
Caught(origin) == origin \in {"initial", "timer"}

\* the awaited collaborator call rejects: catch, finally, re-throw; the
\* rejection propagates when no catch callback is attached
Throws(s, msgs) ==
    /\ calls[s].pc # "idle"
    /\ \E msg \in msgs :
         /\ status' = Release(Catch(status, msg))
         /\ Return(s, [calls[s] EXCEPT !.at = calls[s].pc,
                                       !.propagates = ~Caught(calls[s].origin)],
                   "rejected", msg)
    /\ UNCHANGED <<asmVars, restVars, syncInterval, timers, notes, stateStorage, now, initialized,
                   fetches, skipped>>

(***************************************************************************)
(* The coordinator with its callers, timer and failing collaborators       *)
(***************************************************************************)
Next ==
    \/ Initialize
    \/ ManualSync
    \/ StartAutoSync
    \/ StopAutoSync
    \/ TimerTick
    \/ \E s \in Slots : GetAllDocumentsReturns(s, FewListings)
    \/ \E s \in Slots : GetChangesReturns(s, FewFeeds)
    \/ \E s \in Slots : SaveManyReturns(s)
    \/ \E s \in Slots : DeleteManyReturns(s)
    \/ \E s \in Slots : GetDatabaseInfoReturns(s)
    \/ \E s \in Slots : CountReturns(s)
    \/ \E s \in Slots : UpdateStateReturns(s)
    \/ \E s \in Slots : Throws(s, Msgs)

Spec == Init /\ [][Next]_vars

(***************************************************************************)
(* The coordinator called one sync() after the other, over every record    *)
(* and change entry the Document Store can hold; of the collaborators'     *)
(* calls only the fetch fails                                              *)
(***************************************************************************)
SyncWhenIdle ==
    /\ ~status.isRunning
    /\ ManualSync

\* the Document Store is unreachable when the pass fetches
FetchThrows(s) ==
    /\ calls[s].pc \in {"getAllDocuments", "getChanges"}
    /\ Throws(s, {"EACCES"})

NextData ==
    \/ Initialize
    \/ SyncWhenIdle
    \/ \E s \in Slots : GetAllDocumentsReturns(s, Listings)
    \/ \E s \in Slots : GetChangesReturns(s, Feeds)
    \/ \E s \in Slots : SaveManyReturns(s)
    \/ \E s \in Slots : DeleteManyReturns(s)
    \/ \E s \in Slots : GetDatabaseInfoReturns(s)
    \/ \E s \in Slots : CountReturns(s)
    \/ \E s \in Slots : UpdateStateReturns(s)
    \/ \E s \in Slots : FetchThrows(s)

SpecData == Init /\ [][NextData]_vars

(***************************************************************************)
(* SyncService.getStatus and a caller that writes to what it returns       *)
(***************************************************************************)
\* { ...this.status }: a new object with the values of the fields, of which
\* lastSyncTime is a reference to a Date
LiveReference(st) ==
    [held |-> TRUE, alias |-> TRUE, obj |-> st, at |-> st, written |-> {}]
SpreadCopy(st) ==
    [held |-> TRUE, alias |-> FALSE, obj |-> st, at |-> st, written |-> {}]

\* the object the caller holds, as the caller reads it
View(h) == IF h.alias THEN status ELSE h.obj

\* the caller asks once
GetStatus ==
    /\ ~returned.held
    /\ returned' = SpreadCopy(status)
    /\ UNCHANGED <<syncVars, asmVars, searchVars, clientVars, remoteVars, laterVars, dates>>

\* the value a caller puts in a field: the other boolean, another count,
\* another token, a message, null
Tampered(obj, f) ==
    CASE f = "isRunning" -> ~obj.isRunning
      [] f = "lastSyncSuccess" -> ~obj.lastSyncSuccess
      [] f = "documentsCount" -> obj.documentsCount + 1
      [] f = "lastSeq" -> "0"
      [] f = "error" -> "tampered"
      [] f = "lastSyncTime" -> 0

\* the caller assigns a field of the object it holds
AssignField(f) ==
    /\ returned.held
    /\ Cardinality(returned.written) < MaxWrites
    /\ f \notin returned.written
    /\ \E v \in {Tampered(View(returned), f)} :
         IF returned.alias
         THEN /\ status' = [status EXCEPT ![f] = v]
              /\ returned' = [returned EXCEPT !.written = @ \cup {f}]
         ELSE /\ status' = status
              /\ returned' = [returned EXCEPT !.obj[f] = v,
                                              !.written = @ \cup {f}]
    /\ UNCHANGED <<asmVars, syncInterval, timers, notes, stateStorage, calls,
                   now, initialized, fetches, skipped, done, dates, searchVars,
                   clientVars, remoteVars, laterVars>>

\* the caller sets the time of the Date it reached through lastSyncTime
SetTime ==
    /\ returned.held
    /\ View(returned).lastSyncTime # 0
    /\ dates' = [dates EXCEPT ![View(returned).lastSyncTime] = 0]
    /\ UNCHANGED <<syncVars, asmVars, searchVars, clientVars, remoteVars, laterVars,
                   returned>>

\* the store holds at most one record, and reports at most one change
OneListings == {<<>>, <<BaseDoc(IdA, "x")>>}
OneFeeds ==
    {<<>>, <<Change(IdA, FALSE, TRUE, BaseDoc(IdA, "x"))>>,
     <<Change(IdA, TRUE, FALSE, BaseDoc(IdA, AsmNull))>>}

NextStatus ==
    \/ Initialize
    \/ SyncWhenIdle
    \/ GetStatus
    \/ \E f \in StatusFields : AssignField(f)
    \/ SetTime
    \/ \E s \in Slots : GetAllDocumentsReturns(s, OneListings)
    \/ \E s \in Slots : GetChangesReturns(s, OneFeeds)
    \/ \E s \in Slots : SaveManyReturns(s)
    \/ \E s \in Slots : DeleteManyReturns(s)
    \/ \E s \in Slots : GetDatabaseInfoReturns(s)
    \/ \E s \in Slots : CountReturns(s)
    \/ \E s \in Slots : UpdateStateReturns(s)
    \/ \E s \in Slots : FetchThrows(s)

SpecStatus == Init /\ [][NextStatus]_vars

(***************************************************************************)
(* NoteRepository.search: MemoryNoteRepository and DiskNoteRepository      *)
(***************************************************************************)
\* String.prototype.toLowerCase, character by character
LowerChar(c) ==
    IF \E i \in 1..26 : B64Alphabet[i] = c
    THEN B64Alphabet[26 + CHOOSE i \in 1..26 : B64Alphabet[i] = c]
    ELSE c
toLowerCase(s) == [i \in 1..Len(s) |-> LowerChar(s[i])]

\* String.prototype.includes for a string: it holds for the empty string
IncludesString(s, sub) ==
    \E i \in 0..(Len(s) - Len(sub)) : SubSeq(s, i + 1, i + Len(sub)) = sub

\* String.prototype.trim
WhiteSpace == {" ", "\t", "\n"}
RECURSIVE TrimStart(_)
TrimStart(s) ==
    IF s # <<>> /\ Head(s) \in WhiteSpace THEN TrimStart(Tail(s)) ELSE s
RECURSIVE TrimEnd(_)
TrimEnd(s) ==
    IF s # <<>> /\ s[Len(s)] \in WhiteSpace
    THEN TrimEnd(SubSeq(s, 1, Len(s) - 1)) ELSE s
trim(s) == TrimEnd(TrimStart(s))

\* Array.prototype.filter, given the outcome of the test for each element
RECURSIVE Filter(_, _)
Filter(ns, keep) ==
    IF ns = <<>> THEN <<>>
    ELSE (IF Head(keep) THEN <<Head(ns)>> ELSE <<>>) \o Filter(Tail(ns), Tail(keep))

\* the predicate both implementations filter with
Matches(note, lower) ==
    \/ IncludesString(toLowerCase(note.path), lower)
    \/ IncludesString(toLowerCase(note.content), lower)

\* MemoryNoteRepository.search
MemorySearch(ns, q) ==
    LET lower == toLowerCase(q)
    IN  Filter(ns, [i \in 1..Len(ns) |-> Matches(ns[i], lower)])

\* DiskNoteRepository.search
DiskSearch(ns, q) ==
    IF trim(q) = <<>> THEN <<>>
    ELSE LET lower == toLowerCase(q)
         IN  Filter(ns, [i \in 1..Len(ns) |-> Matches(ns[i], lower)])

\* notes a repository can hold; the id of a note is its path, as the disk
\* repository reads it back
SearchNote(path, content) == [id |-> path, path |-> path, content |-> content]
SearchNotes ==
    {SearchNote(<<"A", "b">>, <<"x", " ", "Y">>),
     SearchNote(<<"c">>, <<"a", "B">>),
     SearchNote(<<"d">>, <<>>)}

\* the repositories of up to MaxNotes notes, each path once
Repositories ==
    {ns \in SeqsUpTo(SearchNotes, MaxNotes) :
        \A i, j \in 1..Len(ns) : i # j => ns[i].path # ns[j].path}

\* blank queries, and queries in either case that match a path, a content,
\* both or nothing
Queries ==
    {<<>>, <<" ">>, <<" ", " ">>, <<"\t">>, <<"a">>, <<"A", "B">>, <<"a", "b">>,
     <<"b">>, <<"x">>, <<"y">>, <<"Y">>, <<" ", "y">>, <<"z">>, <<"C">>, <<"d">>}

Search(q) ==
    /\ query = None
    /\ query' = Some(q)
    /\ hits' = IF repository = "memory" THEN MemorySearch(stored, q)
                ELSE DiskSearch(stored, q)
    /\ UNCHANGED <<syncVars, asmVars, callerVars, clientVars, remoteVars, laterVars, repository,
                   stored>>

InitSearch ==
    /\ NoCoordinator
    /\ NoAssembler
    /\ NoCaller
    /\ NoClient
    /\ NoRemote
    /\ NoLater
    /\ repository \in {"memory", "disk"}
    /\ stored \in Repositories
    /\ query = None
    /\ hits = <<>>

NextSearch == \E q \in Queries : Search(q)

SpecSearch == InitSearch /\ [][NextSearch]_vars

(***************************************************************************)
(* LiveSyncCrypto: decrypt, getPBKDF2Salt, decryptBatch                    *)
(***************************************************************************)
\* the messages of getPBKDF2Salt and decrypt, as the parts of their templates
SaltPrefix == "Failed to load encryption salt: "
DecryptPrefix == "Decryption failed: "
NotFoundMsg == "Sync parameters document not found. Make sure the database is a valid LiveSync database with encryption enabled."
NoSaltMsg == "pbkdf2salt not found in sync parameters document"

\* decrypt(data) up to its first await: unmarked data is returned as it is;
\* marked data needs the salt, which getPBKDF2Salt takes from the cache or
\* asks the store for
StartDecrypt(owner, data) ==
    LET d == [IdleDecrypt EXCEPT !.owner = owner, !.data = data,
                                 !.pre = storageCalls.getDocument,
                                 !.cached = pbkdf2Salt # None,
                                 !.afterNoSalt = storageCalls.noSalt]
    IN  IF ~isEncrypted(data)
        THEN [d EXCEPT !.pc = "settled", !.outcome = Ok(data)]
        ELSE IF pbkdf2Salt # None
        THEN [d EXCEPT !.pc = "decryptHKDF", !.salt = pbkdf2Salt[1]]
        ELSE [d EXCEPT !.pc = "getDocument", !.asked = TRUE]

\* the store calls the invocations of a slot assignment are waiting for
Asking(ds) == Cardinality({k \in DSlots : ds[k].pc = "getDocument"})

\* a slot a new invocation can take: its last invocation has returned
Free(k) ==
    \/ decrypts[k].pc = "idle"
    \/ /\ decrypts[k].pc = "settled"
       /\ ~(decrypts[k].owner = "batch" /\ batch.pc = "pending")

\* the promise of Promise.all once the invocation in slot k has settled as
\* d: rejected by the first rejection, fulfilled by the last fulfilment with
\* the values in the order of the inputs
Overtakes(k, ds) == \E j \in 1..(k - 1) : ds[j].pc # "settled"

PromiseAllInCompletionOrder(k, d) ==
    IF batch.pc # "pending" \/ d.owner # "batch" THEN batch
    ELSE IF ~d.outcome.ok
    THEN [batch EXCEPT !.pc = "rejected", !.error = d.outcome.error,
                       !.outOfOrder = @ \/ Overtakes(k, decrypts)]
    ELSE IF \A j \in 1..Len(batch.chunks) : j = k \/ decrypts[j].pc = "settled"
    THEN [batch EXCEPT !.pc = "resolved",
            !.results = [j \in 1..Len(batch.chunks) |->
                           IF j = Len(batch.chunks) THEN d.outcome.value
                           ELSE IF j < k THEN decrypts[j].outcome.value
                           ELSE decrypts[j + 1].outcome.value],
            !.outOfOrder = @ \/ Overtakes(k, decrypts)]
    ELSE [batch EXCEPT !.outOfOrder = @ \/ Overtakes(k, decrypts)]
PromiseAll(k, d) ==
    IF batch.pc # "pending" \/ d.owner # "batch" THEN batch
    ELSE IF ~d.outcome.ok
    THEN [batch EXCEPT !.pc = "rejected", !.error = d.outcome.error,
                       !.outOfOrder = @ \/ Overtakes(k, decrypts)]
    ELSE IF \A j \in 1..Len(batch.chunks) : j = k \/ decrypts[j].pc = "settled"
    THEN [batch EXCEPT !.pc = "resolved",
            !.results = [j \in 1..Len(batch.chunks) |->
                           IF j = k THEN d.outcome.value
                           ELSE decrypts[j].outcome.value],
            !.outOfOrder = @ \/ Overtakes(k, decrypts)]
    ELSE [batch EXCEPT !.outOfOrder = @ \/ Overtakes(k, decrypts)]

\* the invocation in slot k settles as d
Settle(k, d) ==
    /\ decrypts' = [decrypts EXCEPT ![k] = d]
    /\ batch' = PromiseAll(k, d)

\* decrypt(data) called from outside the assembler
CryptoInputs == {PayloadA, CipherC, CipherBad}

\* strings without the marker at their start: the empty string, half a
\* marker, a marker further in
UnmarkedInputs == {<<>>, <<"%">>, <<"=", "%", "=">>}

\* the invocation takes the lowest free slot; the model drops the records
\* of the invocations that have returned
Decrypt(data) ==
    /\ runs < MaxRuns
    /\ \E k \in DSlots :
         /\ Free(k)
         /\ \A j \in DSlots : j < k => ~Free(j)
         /\ \E d \in {StartDecrypt("caller", data)} :
              /\ decrypts' = [j \in DSlots |->
                                IF j = k THEN d
                                ELSE IF Free(j) THEN IdleDecrypt
                                ELSE decrypts[j]]
              /\ storageCalls' = [storageCalls EXCEPT !.getDocument =
                                    @ + IF d.pc = "getDocument" THEN 1 ELSE 0]
    /\ batch' = IF batch.pc = "pending" THEN batch ELSE IdleBatch
    /\ runs' = runs + 1
    /\ UNCHANGED <<syncVars, restVars, passphrase, syncParams, pbkdf2Salt, asm, saltWrites>>

\* decryptBatch(chunks): every decrypt runs to its first await before any
\* of them is resumed
DecryptBatch(chunks) ==
    /\ runs < MaxRuns
    /\ \A k \in DSlots : Free(k)
    /\ \E ds \in {[k \in DSlots |-> IF k <= Len(chunks)
                                    THEN StartDecrypt("batch", chunks[k])
                                    ELSE IdleDecrypt]} :
         /\ decrypts' = ds
         /\ storageCalls' = [storageCalls EXCEPT !.getDocument = @ + Asking(ds)]
         /\ batch' = IF \A k \in 1..Len(chunks) : ds[k].pc = "settled"
                     THEN [IdleBatch EXCEPT !.pc = "resolved", !.chunks = chunks,
                             !.results = [k \in 1..Len(chunks) |-> ds[k].outcome.value]]
                     ELSE [IdleBatch EXCEPT !.pc = "pending", !.chunks = chunks,
                             !.outOfOrder = \E k \in 1..Len(chunks) :
                                 ds[k].pc = "settled" /\ Overtakes(k, ds)]
    /\ runs' = runs + 1
    /\ UNCHANGED <<syncVars, restVars, passphrase, syncParams, pbkdf2Salt, asm, saltWrites>>

\* getPBKDF2Salt resumed with the store's answer
GetDocumentReturns(k) ==
    /\ decrypts[k].pc = "getDocument"
    /\ IF syncParams = None
       THEN /\ Settle(k, [decrypts[k] EXCEPT !.pc = "settled",
                   !.outcome = Err(<<DecryptPrefix, SaltPrefix, NotFoundMsg>>)])
            /\ storageCalls' = [storageCalls EXCEPT !.noSalt = TRUE]
            /\ UNCHANGED <<pbkdf2Salt, saltWrites>>
       ELSE IF syncParams[1].pbkdf2salt \in {None, Some(<<>>)}
       THEN /\ Settle(k, [decrypts[k] EXCEPT !.pc = "settled",
                   !.outcome = Err(<<DecryptPrefix, SaltPrefix, NoSaltMsg>>)])
            /\ storageCalls' = [storageCalls EXCEPT !.noSalt = TRUE]
            /\ UNCHANGED <<pbkdf2Salt, saltWrites>>
       ELSE \E salt \in {B64Bytes(syncParams[1].pbkdf2salt[1], 0, 0)} :
            /\ pbkdf2Salt' = Some(salt)
            /\ saltWrites' = saltWrites + 1
            /\ decrypts' = [decrypts EXCEPT ![k].pc = "decryptHKDF", ![k].salt = salt]
            /\ UNCHANGED <<batch, storageCalls>>
    /\ UNCHANGED <<syncVars, restVars, passphrase, syncParams, asm, runs>>

\* the store is unreachable when getPBKDF2Salt asks
GetDocumentThrows(k) ==
    /\ decrypts[k].pc = "getDocument"
    /\ Settle(k, [decrypts[k] EXCEPT !.pc = "settled",
            !.outcome = Err(<<DecryptPrefix, SaltPrefix, "ECONNREFUSED">>)])
    /\ UNCHANGED <<syncVars, restVars, passphrase, syncParams, pbkdf2Salt, asm,
                   storageCalls, saltWrites, runs>>

\* decrypt resumed with the outcome of decryptHKDF
DecryptHKDFReturns(k) ==
    /\ decrypts[k].pc = "decryptHKDF"
    /\ \E r \in {decryptHKDF(decrypts[k].data, passphrase, decrypts[k].salt)} :
         Settle(k, [decrypts[k] EXCEPT !.pc = "settled",
                      !.outcome = IF r.ok THEN r
                                  ELSE Err(<<DecryptPrefix>> \o r.error)])
    /\ UNCHANGED <<syncVars, restVars, passphrase, syncParams, pbkdf2Salt, asm,
                   storageCalls, saltWrites, runs>>

\* an adapter built with any passphrase over any sync-parameters record
InitCrypto ==
    /\ NoCoordinator
    /\ NoRest
    /\ passphrase \in {"", Passphrase, "guess"}
    /\ syncParams \in SyncParamsDocs
    /\ pbkdf2Salt = None
    /\ decrypts = [k \in DSlots |-> IdleDecrypt]
    /\ batch = IdleBatch
    /\ asm = IdleAsm
    /\ storageCalls = NoStorageCalls
    /\ saltWrites = 0
    /\ runs = 0

NextCrypto ==
    \/ \E data \in CryptoInputs \cup UnmarkedInputs : Decrypt(data)
    \/ \E chunks \in SeqsUpTo(CryptoInputs, MaxBatch) : DecryptBatch(chunks)
    \/ \E k \in DSlots : GetDocumentReturns(k)
    \/ \E k \in DSlots : GetDocumentThrows(k)
    \/ \E k \in DSlots : DecryptHKDFReturns(k)

SpecCrypto == InitCrypto /\ [][NextCrypto]_vars

(***************************************************************************)
(* ChunkAssembler: assembleDocument, assembleFromEden, assembleFromChildren *)
(***************************************************************************)
ChunkIds == {"h:a", "h:b"}

\* Chunk ids are content addresses: an id stands for one payload.  In a
\* vault with a passphrase h:a is a payload stored unmarked, h:b a marked
\* one and h:c a corrupt marked one.
PayloadOf(id, pass) ==
    CASE id = "h:a" -> PayloadA
      [] id = "h:b" -> IF pass = "" THEN PayloadB ELSE CipherC
      [] OTHER -> IF pass = "" THEN PayloadA ELSE CipherBad

\* a chunk record as the store can hold it: without data, with empty data,
\* with its payload
ChunkDocs(id, pass) ==
    {[type |-> "leaf", data |-> data] :
        data \in {None, Some(<<>>), Some(PayloadOf(id, pass))}}

\* an entry of an eden map
EdenEntry(key, data, epoch) == [key |-> key, data |-> data, epoch |-> epoch]

\* the keys of eden maps: as many as a map has entries at most
EdenKeys == {<<"h:a", "h:b", "h:c", "h:d">>[i] : i \in 1..MaxEden}

\* eden maps, as their entries in the order Object.entries lists them: up
\* to n entries with different keys, each epoch in 1..MaxEden
RECURSIVE EdenMapsUpTo(_, _)
EdenMapsUpTo(n, pass) ==
    IF n = 0 THEN {<<>>}
    ELSE LET shorter == EdenMapsUpTo(n - 1, pass)
         IN  shorter \cup
             UNION {{Append(m, EdenEntry(key, PayloadOf(key, pass), epoch)) :
                       key \in EdenKeys \ {m[i].key : i \in 1..Len(m)},
                       epoch \in 1..MaxEden} :
                    m \in {r \in shorter : Len(r) = n - 1}}

EdenMaps(pass) == EdenMapsUpTo(MaxEden, pass)

\* children lists: up to MaxChildren ids, repeats included
ChildrenLists == SeqsUpTo(ChunkIds, MaxChildren)

\* The records handed to assembleDocument: every combination of a data
\* field, an eden map and a children list that is not set, empty or set;
\* records with only a data field, over every payload; records with only
\* an eden map, over every map; records with only a children list, over
\* every list.
AsmDocs(pass) ==
    {[data |-> data, eden |-> eden, children |-> children] :
        data \in {None, Some(<<>>), Some(PayloadA)},
        eden \in {None, Some(<<>>), Some(<<EdenEntry("h:b", PayloadOf("h:b", pass), 1)>>)},
        children \in {None, Some(<<>>), Some(<<"h:a", "h:b">>)}}
    \cup {[NoDoc EXCEPT !.data = Some(x)] : x \in LeafPayloads(pass)}
    \cup {[NoDoc EXCEPT !.eden = Some(m)] : m \in EdenMaps(pass)}
    \cup {[NoDoc EXCEPT !.children = Some(c)] : c \in ChildrenLists}

AsmDocsPlain == AsmDocs("")
AsmDocsCrypto == AsmDocs(Passphrase)

\* a leaf the loops decode: for a looked-up leaf, whether the bulk result
\* has it
Leaf(id, lookup, found, data) ==
    [id |-> id, lookup |-> lookup, found |-> found, data |-> data]

\* Array.prototype.sort by a.epoch - b.epoch: a stable sort
RECURSIVE InsertByEpoch(_, _)
InsertByEpoch(sorted, e) ==
    IF sorted = <<>> THEN <<e>>
    ELSE IF Head(sorted).epoch - e.epoch <= 0
    THEN <<Head(sorted)>> \o InsertByEpoch(Tail(sorted), e)
    ELSE <<e>> \o sorted

SortByEpochUnsorted(entries) == entries
RECURSIVE SortByEpoch(_)
SortByEpoch(entries) ==
    IF entries = <<>> THEN <<>>
    ELSE InsertByEpoch(SortByEpoch(SubSeq(entries, 1, Len(entries) - 1)),
                       entries[Len(entries)])

\* Map.get on the bulk result, a sequence of rows [id, doc]
MapHas(rows, id) == \E i \in 1..Len(rows) : rows[i].id = id
MapGet(rows, id) == rows[CHOOSE i \in 1..Len(rows) : rows[i].id = id].doc

\* the leaves of assembleFromChildren: one per id of the children list, in
\* the order of the list, each looked up in the bulk result
LeavesInFetchOrder(children, rows) ==
    [i \in 1..Len(rows) |-> Leaf(rows[i].id, TRUE, TRUE, rows[i].doc.data)]
LeavesOfChildren(children, rows) ==
    [i \in 1..Len(children) |->
        IF MapHas(rows, children[i])
        THEN Leaf(children[i], TRUE, TRUE, MapGet(rows, children[i]).data)
        ELSE Leaf(children[i], TRUE, FALSE, None)]

\* the leaves of assembleFromEden: the entries sorted by epoch
LeavesOfEden(eden) ==
    LET sorted == SortByEpoch(eden)
    IN  [i \in 1..Len(sorted) |-> Leaf(sorted[i].key, FALSE, TRUE, Some(sorted[i].data))]

\* chunks.join('')
RECURSIVE Join(_)
Join(chunks) == IF chunks = <<>> THEN <<>> ELSE Head(chunks) \o Join(Tail(chunks))

\* JavaScript truthiness of an optional string, and of an optional list
\* together with the test of its length
FilledWhenSet(opt) == opt # None
Filled(opt) == opt # None /\ Len(opt[1]) > 0

\* the strategy of assembleDocument: the first source that is filled
StrategyChildrenFirst(doc) ==
    IF Filled(doc.children) THEN "children"
    ELSE IF Filled(doc.data) THEN "data"
    ELSE IF Filled(doc.eden) THEN "eden"
    ELSE "none"
Strategy(doc) ==
    IF Filled(doc.data) THEN "data"
    ELSE IF Filled(doc.eden) THEN "eden"
    ELSE IF Filled(doc.children) THEN "children"
    ELSE "none"

\* the invocation returns
Returned(a, outcome) == [a EXCEPT !.pc = "returned", !.outcome = outcome]

\* The loop over the leaves from a.i on (for the data field, its one leaf):
\* it runs to the end, to the first leaf that is missing or has no data, or,
\* with an adapter, to the next awaited decrypt.
RECURSIVE RunLoopPastFailures(_, _)
RunLoopPastFailures(a, pass) ==
    IF a.i > Len(a.items) THEN Returned(a, Ok(Join(a.chunks)))
    ELSE LET leaf == a.items[a.i]
         IN  IF leaf.lookup /\ (~leaf.found \/ ~Filled(leaf.data))
             THEN RunLoopPastFailures([a EXCEPT !.i = @ + 1], pass)
             ELSE IF pass # ""
             THEN [a EXCEPT !.pc = "decrypt", !.decoded = Append(@, leaf.data[1])]
             ELSE RunLoopPastFailures([a EXCEPT !.i = @ + 1,
                              !.chunks = Append(@, Base64Decode(leaf.data[1])),
                              !.decoded = Append(@, leaf.data[1])], pass)
RECURSIVE RunLoop(_, _)
RunLoop(a, pass) ==
    IF a.i > Len(a.items) THEN Returned(a, Ok(Join(a.chunks)))
    ELSE LET leaf == a.items[a.i]
         IN  IF leaf.lookup /\ ~leaf.found
             THEN Returned(a, Err(<<"Chunk not found: ", leaf.id>>))
             ELSE IF leaf.lookup /\ ~Filled(leaf.data)
             THEN Returned(a, Err(<<"Chunk has no data: ", leaf.id>>))
             ELSE IF pass # ""
             THEN [a EXCEPT !.pc = "decrypt", !.decoded = Append(@, leaf.data[1])]
             ELSE RunLoop([a EXCEPT !.i = @ + 1,
                              !.chunks = Append(@, Base64Decode(leaf.data[1])),
                              !.decoded = Append(@, leaf.data[1])], pass)

\* the invocation runs on from a to its next await or to its return; an
\* awaited decrypt is started in the assembler's slot
Continue(a) ==
    \E b \in {RunLoop(a, passphrase)} :
        /\ asm' = b
        /\ IF b.pc = "decrypt"
           THEN \E d \in {StartDecrypt("asm", b.items[b.i].data[1])} :
                  /\ decrypts' = [decrypts EXCEPT ![1] = d]
                  /\ storageCalls' = [storageCalls EXCEPT !.getDocument =
                                        @ + IF d.pc = "getDocument" THEN 1 ELSE 0]
           ELSE UNCHANGED <<decrypts, storageCalls>>

\* assembleDocument(doc) up to its first await
AssembleDocument(doc) ==
    /\ runs < MaxRuns
    /\ asm.pc = "idle"
    /\ runs' = runs + 1
    /\ LET a == [IdleAsm EXCEPT !.doc = doc, !.strategy = Strategy(doc),
                                 !.pre = storageCalls.getDocuments]
       IN  CASE a.strategy = "data" ->
                  Continue([a EXCEPT !.items = <<Leaf("", FALSE, TRUE, doc.data)>>])
             [] a.strategy = "eden" ->
                  Continue([a EXCEPT !.items = LeavesOfEden(doc.eden[1])])
             [] a.strategy = "children" ->
                  /\ asm' = [a EXCEPT !.pc = "getDocuments",
                                      !.fetched = <<doc.children[1]>>]
                  /\ storageCalls' = [storageCalls EXCEPT !.getDocuments = @ + 1]
                  /\ UNCHANGED decrypts
             [] OTHER ->
                  /\ asm' = [Returned(a, Ok(<<>>)) EXCEPT !.isNull = TRUE]
                  /\ UNCHANGED <<decrypts, storageCalls>>
    /\ UNCHANGED <<syncVars, restVars, passphrase, syncParams, pbkdf2Salt, batch, saltWrites>>

\* the rows of a bulk result: for each id asked for, a chunk the store
\* holds or nothing, in any order
BulkResults(ids, pass) ==
    LET asked == {ids[i] : i \in 1..Len(ids)}
        options == UNION {{[id |-> id, doc |-> None]}
                          \cup {[id |-> id, doc |-> Some(c)] : c \in ChunkDocs(id, pass)} :
                          id \in asked}
        holds == {h \in [asked -> {o.doc : o \in options}] :
                     \A id \in asked : [id |-> id, doc |-> h[id]] \in options}
    IN  UNION {{rows \in SeqsUpTo({[id |-> id, doc |-> h[id][1]] :
                                      id \in {x \in asked : h[x] # None}},
                                  Cardinality(asked)) :
                  /\ Len(rows) = Cardinality({x \in asked : h[x] # None})
                  /\ \A i, j \in 1..Len(rows) : i # j => rows[i].id # rows[j].id} :
               h \in holds}

\* the bulk results for the children lists of the records above
BulkResultsPlain == [ids \in ChildrenLists \ {<<>>} |-> BulkResults(ids, "")]
BulkResultsCrypto == [ids \in ChildrenLists \ {<<>>} |-> BulkResults(ids, Passphrase)]

\* assembleFromChildren resumed with the bulk result
GetDocumentsReturns ==
    /\ asm.pc = "getDocuments"
    /\ \E rows \in IF passphrase = "" THEN BulkResultsPlain[asm.doc.children[1]]
                     ELSE BulkResultsCrypto[asm.doc.children[1]] :
         Continue([asm EXCEPT !.chunkDocs = rows,
                     !.items = LeavesOfChildren(asm.doc.children[1], rows)])
    /\ UNCHANGED <<syncVars, restVars, passphrase, syncParams, pbkdf2Salt, batch,
                   saltWrites, runs>>

\* the store is unreachable when the bulk fetch is issued
GetDocumentsThrows ==
    /\ asm.pc = "getDocuments"
    /\ asm' = Returned(asm, Err(<<"ECONNREFUSED">>))
    /\ UNCHANGED <<syncVars, restVars, passphrase, syncParams, pbkdf2Salt, decrypts,
                   batch, storageCalls, saltWrites, runs>>

\* the loop resumed with the outcome of the awaited decrypt
DecryptSettles ==
    /\ asm.pc = "decrypt"
    /\ decrypts[1].pc = "settled"
    /\ IF decrypts[1].outcome.ok
       THEN Continue([asm EXCEPT !.i = @ + 1,
                        !.chunks = Append(@, decrypts[1].outcome.value)])
       ELSE /\ asm' = Returned(asm, decrypts[1].outcome)
            /\ UNCHANGED <<decrypts, storageCalls>>
    /\ UNCHANGED <<syncVars, restVars, passphrase, syncParams, pbkdf2Salt, batch,
                   saltWrites, runs>>

\* the caller has the outcome: the invocation and its decrypt are over
ReturnToCaller ==
    /\ asm.pc = "returned"
    /\ asm' = IdleAsm
    /\ decrypts' = [decrypts EXCEPT ![1] = IdleDecrypt]
    /\ UNCHANGED <<syncVars, restVars, passphrase, syncParams, pbkdf2Salt, batch,
                   storageCalls, saltWrites, runs>>

\* an assembler built without a passphrase, or with the vault's passphrase
\* over any sync-parameters record
InitAsm ==
    /\ NoCoordinator
    /\ NoRest
    /\ passphrase \in {"", Passphrase}
    /\ syncParams \in IF passphrase = "" THEN {None} ELSE SyncParamsDocs
    /\ pbkdf2Salt = None
    /\ decrypts = [k \in DSlots |-> IdleDecrypt]
    /\ batch = IdleBatch
    /\ asm = IdleAsm
    /\ storageCalls = NoStorageCalls
    /\ saltWrites = 0
    /\ runs = 0

NextAsm ==
    \/ \E doc \in AsmDocsPlain : passphrase = "" /\ AssembleDocument(doc)
    \/ \E doc \in AsmDocsCrypto : passphrase # "" /\ AssembleDocument(doc)
    \/ ReturnToCaller
    \/ GetDocumentsReturns
    \/ GetDocumentsThrows
    \/ DecryptSettles
    \/ \E k \in DSlots : GetDocumentReturns(k)
    \/ \E k \in DSlots : GetDocumentThrows(k)
    \/ \E k \in DSlots : DecryptHKDFReturns(k)

SpecAsm == InitAsm /\ [][NextAsm]_vars

(***************************************************************************)
(* CouchDBClient.getDocuments                                              *)
(***************************************************************************)
\* the record the database holds under an id
BulkDoc(id) == [_id |-> id, type |-> "leaf"]

\* the row db.fetch answers for a key: the record; for a deleted record a
\* row whose doc is null; for an unknown key a row with an error
FetchRow(key, held) ==
    CASE held = "doc" ->
           [key |-> key, id |-> key, hasDoc |-> TRUE, doc |-> Some(BulkDoc(key)),
            error |-> None]
      [] held = "deleted" ->
           [key |-> key, id |-> key, hasDoc |-> TRUE, doc |-> None, error |-> None]
      [] held = "missing" ->
           [key |-> key, id |-> "", hasDoc |-> FALSE, doc |-> None,
            error |-> Some("not_found")]

\* Map.prototype.set on a map kept as its entries in insertion order
MapPut(m, id, doc) ==
    IF \E i \in 1..Len(m) : m[i].id = id
    THEN [i \in 1..Len(m) |-> IF m[i].id = id THEN [id |-> id, doc |-> doc] ELSE m[i]]
    ELSE Append(m, [id |-> id, doc |-> doc])

\* the loop over result.rows
RECURSIVE CollectThrowing(_, _)
RECURSIVE Collect(_, _)
\* a loop that throws at a row without a record
CollectThrowing(m, rows) ==
    IF rows = <<>> THEN Ok(m)
    ELSE IF Head(rows).hasDoc /\ Head(rows).doc # None
    THEN CollectThrowing(MapPut(m, Head(rows).id, Head(rows).doc[1]), Tail(rows))
    ELSE Err(<<"not_found">>)
Collect(m, rows) ==
    IF rows = <<>> THEN Ok(m)
    ELSE IF Head(rows).hasDoc /\ Head(rows).doc # None
    THEN Collect(MapPut(m, Head(rows).id, Head(rows).doc[1]), Tail(rows))
    ELSE Collect(m, Tail(rows))

\* getDocuments(ids) up to its await: an empty list is answered at once
GetDocuments(ids) ==
    /\ bulk.pc = "idle"
    /\ bulk' = IF Len(ids) = 0
               THEN [bulk EXCEPT !.pc = "returned", !.ids = ids, !.outcome = Ok(<<>>)]
               ELSE [bulk EXCEPT !.pc = "fetch", !.ids = ids, !.fetches = @ + 1]
    /\ UNCHANGED <<syncVars, asmVars, callerVars, searchVars, remoteVars, laterVars, couch>>

\* getDocuments resumed with the rows of db.fetch, one per key in the
\* order of the keys
FetchReturns ==
    /\ bulk.pc = "fetch"
    /\ \E rows \in {[i \in 1..Len(bulk.ids) |-> FetchRow(bulk.ids[i], couch[bulk.ids[i]])]} :
         bulk' = [bulk EXCEPT !.pc = "returned", !.outcome = Collect(<<>>, rows)]
    /\ UNCHANGED <<syncVars, asmVars, callerVars, searchVars, remoteVars, laterVars, couch>>

\* db.fetch rejects: the error is logged and thrown again
FetchRejects ==
    /\ bulk.pc = "fetch"
    /\ bulk' = [bulk EXCEPT !.pc = "returned", !.threw = TRUE,
                           !.outcome = Err(<<"Bulk fetch failed">>)]
    /\ UNCHANGED <<syncVars, asmVars, callerVars, searchVars, remoteVars, laterVars, couch>>

\* a database that holds, has deleted or does not know each id
InitClient ==
    /\ NoCoordinator
    /\ NoAssembler
    /\ NoCaller
    /\ NoSearch
    /\ NoRemote
    /\ NoLater
    /\ couch \in [BulkIds -> {"doc", "deleted", "missing"}]
    /\ bulk = IdleBulk

NextClient ==
    \/ \E ids \in SeqsUpTo(BulkIds, MaxKeys) : GetDocuments(ids)
    \/ FetchReturns
    \/ FetchRejects

SpecClient == InitClient /\ [][NextClient]_vars

(***************************************************************************)
(* The coordinator over a database that other clients write to             *)
(***************************************************************************)
\* a write: the record of id is saved, or deleted; asm is the assembler's
\* answer for the revision and type its type
Write(id, del) == [id |-> id, del |-> del, asm |-> "x", type |-> "newnote"]

\* the saves whose revision does not become a note: the assembler answers
\* null or throws, or the record is no longer of a note type
BrokenWrites(id) ==
    {[Write(id, FALSE) EXCEPT !.asm = AsmNull],
     [Write(id, FALSE) EXCEPT !.asm = AsmThrow],
     [Write(id, FALSE) EXCEPT !.type = "leaf"]}

\* the revision the write with sequence number n leaves
Revision(w, n) ==
    [BaseDoc(w.id, w.asm) EXCEPT !.mtime = n, !._deleted = w.del, !.type = w.type]

\* the sequence numbers of the writes no later write of the same record
\* has replaced
Current(db) ==
    {i \in 1..Len(db) : \A j \in (i + 1)..Len(db) : db[j].id # db[i].id}

\* the ids of the records that exist and are not deleted
Live(db) == {db[i].id : i \in {j \in Current(db) : ~db[j].del}}

\* db.list({ include_docs: true }): the rows of the live records by key
SortedIds == <<IdA, IdB>>
RECURSIVE ListFrom(_, _)
ListFrom(db, k) ==
    IF k > Len(SortedIds) THEN <<>>
    ELSE IF SortedIds[k] \in Live(db)
    THEN LET i == CHOOSE j \in Current(db) : db[j].id = SortedIds[k]
         IN  <<Revision(db[i], i)>> \o ListFrom(db, k + 1)
    ELSE ListFrom(db, k + 1)
ListAll(db) == ListFrom(db, 1)

\* the number a sequence token stands for
SeqNumber(token) == CHOOSE n \in 0..9 : Digits[n + 1] = token

\* the entries of the feed after sequence number k, one for each record
\* changed since, in sequence order
RECURSIVE ChangesAfter(_, _)
ChangesAfter(db, k) ==
    IF k >= Len(db) THEN <<>>
    ELSE IF k + 1 \in Current(db)
    THEN <<Change(db[k + 1].id, db[k + 1].del, TRUE, Revision(db[k + 1], k + 1))>>
         \o ChangesAfter(db, k + 1)
    ELSE ChangesAfter(db, k + 1)

\* db.changes({ since, include_docs: true })
ChangesFromStart(db, since) == ChangesAfter(db, 0)
ChangesSince(db, since) == ChangesAfter(db, SeqNumber(since))

\* db.info(): update_seq
UpdateSeq(db) == NumSeq(Len(db))

\* another client saves a record
RemoteSave(id) ==
    /\ Len(remote) < MaxRemote
    /\ remote' = Append(remote, Write(id, FALSE))
    /\ UNCHANGED <<syncVars, asmVars, callerVars, searchVars, clientVars, laterVars>>

\* another client saves a record in a shape that does not become a note
RemoteSaveBroken(id) ==
    /\ Len(remote) < MaxRemote
    /\ \E w \in BrokenWrites(id) : remote' = Append(remote, w)
    /\ UNCHANGED <<syncVars, asmVars, callerVars, searchVars, clientVars, laterVars>>

\* another client deletes a record
RemoteDelete(id) ==
    /\ Len(remote) < MaxRemote
    /\ id \in Live(remote)
    /\ remote' = Append(remote, Write(id, TRUE))
    /\ UNCHANGED <<syncVars, asmVars, callerVars, searchVars, clientVars, laterVars>>

\* the replies of the database as it is when it answers
ListReturns(s) ==
    /\ calls[s].pc = "getAllDocuments"
    /\ GetAllDocumentsReturns(s, {ListAll(remote)})

ChangesReturn(s) ==
    /\ calls[s].pc = "getChanges"
    /\ GetChangesAnswers(s, {ChangesSince(remote, calls[s].since)}, {UpdateSeq(remote)})

InfoReturns(s) ==
    /\ calls[s].pc = "getDatabaseInfo"
    /\ GetDatabaseInfoAnswers(s, {UpdateSeq(remote)})

\* a first run, or a run after one that synchronised the empty database:
\* nothing in the repository, no cursor or the cursor of the empty database
InitRemote ==
    InitOver({EmptyRepo},
             {EmptyState, [lastSeq |-> JsString(UpdateSeq(<<>>)), lastSyncTime |-> 0]})

NextRemote ==
    \/ Initialize
    \/ SyncWhenIdle
    \/ \E id \in NoteIds : RemoteSave(id)
    \/ \E id \in NoteIds : RemoteSaveBroken(id)
    \/ \E id \in NoteIds : RemoteDelete(id)
    \/ \E s \in Slots : ListReturns(s)
    \/ \E s \in Slots : ChangesReturn(s)
    \/ \E s \in Slots : SaveManyReturns(s)
    \/ \E s \in Slots : DeleteManyReturns(s)
    \/ \E s \in Slots : InfoReturns(s)
    \/ \E s \in Slots : CountReturns(s)
    \/ \E s \in Slots : UpdateStateReturns(s)

SpecRemote == InitRemote /\ [][NextRemote]_vars

(***************************************************************************)
(* The coordinator with one incremental pass over every feed               *)
(***************************************************************************)
\* the Document Store builds the response to the getChanges call of a pass
FeedArrives(s) ==
    /\ calls[s].pc = "getChanges"
    /\ feed.pass = 0
    /\ \E results \in Feeds : feed' = [pass |-> calls[s].pass, results |-> results]
    /\ UNCHANGED <<syncVars, asmVars, callerVars, searchVars, clientVars, remoteVars,
                   storeVars, lastVars>>

\* getChanges returns the response
FeedReturns(s) ==
    /\ calls[s].pc = "getChanges"
    /\ feed.pass = calls[s].pass
    /\ GetChangesAnswers(s, {feed.results}, UpdateSeqs)

NextFeed ==
    \/ Initialize
    \/ SyncWhenIdle
    \/ \E s \in Slots : GetAllDocumentsReturns(s, FewListings)
    \/ \E s \in Slots : FeedArrives(s)
    \/ \E s \in Slots : FeedReturns(s)
    \/ \E s \in Slots : SaveManyReturns(s)
    \/ \E s \in Slots : DeleteManyReturns(s)
    \/ \E s \in Slots : GetDatabaseInfoReturns(s)
    \/ \E s \in Slots : CountReturns(s)
    \/ \E s \in Slots : UpdateStateReturns(s)

SpecFeed == Init /\ [][NextFeed]_vars

(***************************************************************************)
(* The coordinator with responsive collaborators and a timer that fires    *)
(***************************************************************************)
\* the call a pass awaits returns or throws
Respond ==
    \E s \in Slots :
        \/ GetAllDocumentsReturns(s, OneListings)
        \/ GetChangesReturns(s, OneFeeds)
        \/ SaveManyReturns(s)
        \/ DeleteManyReturns(s)
        \/ GetDatabaseInfoReturns(s)
        \/ CountReturns(s)
        \/ UpdateStateReturns(s)
        \/ Throws(s, {"EACCES"})

NextLive ==
    \/ Initialize
    \/ ManualSync
    \/ StartAutoSync
    \/ StopAutoSync
    \/ TimerTick
    \/ Respond

\* every awaited call is answered, and an installed timer keeps firing
SpecLive == Init /\ [][NextLive]_vars /\ WF_vars(Respond) /\ WF_vars(TimerTick)

(***************************************************************************)
(* JsonFileStorage: the State Store over one JSON file                     *)
(***************************************************************************)
\* a SyncState object: its own properties in insertion order, each a
\* string or undefined
StateKeys == {"lastSeq", "lastSyncTime"}
Property(k, v) == [k |-> k, v |-> v]
HasKey(obj, k) == \E i \in 1..Len(obj) : obj[i].k = k

\* obj[k]
Lookup(obj, k) ==
    IF HasKey(obj, k) THEN obj[CHOOSE i \in 1..Len(obj) : obj[i].k = k].v ELSE Absent

\* the objects a caller hands to the store
StateObjects ==
    {obj \in SeqsUpTo({Property(k, v) : k \in StateKeys, v \in {"100", "200", Absent}}, 2) :
        \A i, j \in 1..Len(obj) : obj[i].k = obj[j].k => i = j}

\* JSON.stringify(state, null, 2): properties whose value is undefined are
\* left out; the text is kept as the properties it spells
RECURSIVE Stringify(_)
Stringify(obj) ==
    IF obj = <<>> THEN <<>>
    ELSE IF Head(obj).v = Absent THEN Stringify(Tail(obj))
    ELSE <<Head(obj)>> \o Stringify(Tail(obj))

\* JSON.parse(content)
Parse(text) == text

\* obj with the property set: in place when obj has the key, else added
SetProperty(obj, prop) ==
    IF HasKey(obj, prop.k)
    THEN [i \in 1..Len(obj) |-> IF obj[i].k = prop.k THEN prop ELSE obj[i]]
    ELSE Append(obj, prop)

\* { ...a, ...b }
RECURSIVE Spread(_, _)
SpreadSecondOnly(a, b) == b
Spread(a, b) ==
    IF b = <<>> THEN a ELSE Spread(SetProperty(a, Head(b)), Tail(b))

\* getState(): the parsed file, or {} when readFile fails with ENOENT
ReadState(f) == IF f = None THEN <<>> ELSE Parse(f[1])

\* saveState(state): the file written
WriteState(state) == Some(Stringify(state))

\* the record of the call that returns, and of the one before
StoreReturns(op, arg, out) ==
    /\ storeCall' = [op |-> op, arg |-> arg, out |-> out, before |-> stateFile]
    /\ storePrior' = [storeCall EXCEPT !.before = None, !.out = <<>>]
    /\ UNCHANGED <<syncVars, asmVars, callerVars, searchVars, clientVars, remoteVars,
                   feedVars, lastVars>>

GetState ==
    /\ stateFile' = stateFile
    /\ StoreReturns("getState", <<>>, ReadState(stateFile))

SaveState(state) ==
    /\ stateFile' = WriteState(state)
    /\ StoreReturns("saveState", state, <<>>)

\* updateState(partial): getState, spread, saveState
UpdateState(partial) ==
    /\ \E currentState \in {ReadState(stateFile)} :
       \E newState \in {Spread(currentState, partial)} :
         stateFile' = WriteState(newState)
    /\ StoreReturns("updateState", partial, <<>>)

\* resetState(): unlink; ENOENT is not an error
ResetState ==
    /\ stateFile' = None
    /\ StoreReturns("resetState", <<>>, <<>>)

InitStore ==
    /\ NoCoordinator
    /\ NoAssembler
    /\ NoCaller
    /\ NoSearch
    /\ NoClient
    /\ NoRemote
    /\ NoLater

NextStore ==
    \/ GetState
    \/ \E state \in StateObjects : SaveState(state)
    \/ \E partial \in StateObjects : UpdateState(partial)
    \/ ResetState

SpecStore == InitStore /\ [][NextStore]_vars

(***************************************************************************)
(* MemoryNoteRepository and a caller                                       *)
(***************************************************************************)
\* the notes the caller saves: two versions under each id but the last,
\* under which nothing is ever saved
RepoNote(id, content) == [id |-> id, path |-> id, content |-> content, mtime |-> 1]
RepoNotes == {RepoNote(id, content) : id \in NoteIds, content \in {"old", "new"}}

\* the note of a list saved last under an id, if the list has one
LastSaved(ns, id, before) ==
    IF \E i \in DOMAIN ns : ns[i].id = id
    THEN Some(ns[CHOOSE i \in DOMAIN ns :
                   /\ ns[i].id = id
                   /\ \A j \in DOMAIN ns : ns[j].id = id => j <= i])
    ELSE before

\* the record of the call that returns; the coordinator is not running
RepoReturns(op, arg, out) ==
    /\ repoCall' = [op |-> op, arg |-> arg, out |-> out, before |-> notes]
    /\ UNCHANGED <<status, syncInterval, timers, stateStorage, calls, now,
                   initialized, fetches, skipped, done>>
    /\ UNCHANGED <<asmVars, callerVars, searchVars, clientVars, remoteVars,
                   feedVars, storeVars, busVars, pluginVars>>

RepoSave(note) ==
    /\ notes' = MapSet(notes, note)
    /\ written' = [written EXCEPT ![note.id] = Some(note)]
    /\ RepoReturns("save", note, <<>>)

RepoSaveMany(ns) ==
    /\ notes' = saveMany(notes, ns)
    /\ written' = [id \in RepoIds |-> LastSaved(ns, id, written[id])]
    /\ RepoReturns("saveMany", ns, <<>>)

RepoDelete(id) ==
    /\ notes' = MapDelete(notes, id)
    /\ written' = [written EXCEPT ![id] = None]
    /\ RepoReturns("delete", id, <<>>)

RepoDeleteMany(ids) ==
    /\ notes' = deleteMany(notes, ids)
    /\ written' = [id \in RepoIds |->
                 IF \E i \in DOMAIN ids : ids[i] = id THEN None ELSE written[id]]
    /\ RepoReturns("deleteMany", ids, <<>>)

RepoGet(id) ==
    /\ UNCHANGED <<notes, written>>
    /\ RepoReturns("get", id, get(notes, id))

RepoCount ==
    /\ UNCHANGED <<notes, written>>
    /\ RepoReturns("count", <<>>, count(notes))

InitRepo ==
    /\ NoCoordinator
    /\ NoAssembler
    /\ NoCaller
    /\ NoSearch
    /\ NoClient
    /\ NoRemote
    /\ NoLater

NextRepo ==
    \/ \E note \in RepoNotes : RepoSave(note)
    \/ \E ns \in SeqsUpTo(RepoNotes, MaxBulk) : RepoSaveMany(ns)
    \/ \E id \in RepoIds : RepoDelete(id)
    \/ \E ids \in SeqsUpTo(RepoIds, MaxBulk) : RepoDeleteMany(ids)
    \/ \E id \in RepoIds : RepoGet(id)
    \/ RepoCount

SpecRepo == InitRepo /\ [][NextRepo]_vars

(***************************************************************************)
(* EventBus                                                                *)
(***************************************************************************)
Listeners == 1..MaxListeners
EventTypes == {"SyncStarted", "SyncFailed"}
Wildcard == "*"
\* the keys listeners subscribe under; events of the other type are emitted
\* too
BusKeys == {"SyncStarted", Wildcard}

\* what a listener does when it is called: it returns (or its promise
\* resolves), or it throws (or its promise rejects, which await throws)
Outcomes == {"returns", "throws"}

\* Map.prototype.get, with the empty set for undefined
BusGet(map, key) == IF key \in DOMAIN map THEN map[key] ELSE {}

\* the members of a Set in the order forEach visits them; the listeners
\* are numbered in the order they were made
RECURSIVE Members(_)
Members(set) ==
    IF set = {} THEN <<>>
    ELSE LET first == CHOOSE l \in set : \A m \in set : l <= m
         IN  <<first>> \o Members(set \ {first})

\* listeners.add(listener) on the Set emit builds, kept as its members in
\* insertion order
SetAddAgain(set, l) == Append(set, l)
SetAdd(set, l) ==
    IF \E i \in DOMAIN set : set[i] = l THEN set ELSE Append(set, l)

\* forEach((listener) => listeners.add(listener))
RECURSIVE AddAll(_, _)
AddAll(set, more) ==
    IF more = <<>> THEN set ELSE AddAll(SetAdd(set, Head(more)), Tail(more))

\* the components outside the bus are not in use
BusOnly ==
    UNCHANGED <<syncVars, asmVars, callerVars, searchVars, clientVars, remoteVars,
                feedVars, storeVars, repoVars, pluginVars>>

\* subscribe(type, listener)
Subscribe(key, l) ==
    /\ listeners' = [k \in DOMAIN listeners \cup {key} |->
                       IF k = key THEN BusGet(listeners, key) \cup {l}
                       ELSE listeners[k]]
    /\ subscribed' = subscribed \cup {<<key, l>>}
    /\ UNCHANGED emitting
    /\ BusOnly

\* unsubscribe(type, listener)
Unsubscribe(key, l) ==
    /\ IF key \notin DOMAIN listeners
       THEN listeners' = listeners
       ELSE \E rest \in {listeners[key] \ {l}} :
              listeners' = IF rest = {}
                           THEN [k \in DOMAIN listeners \ {key} |-> listeners[k]]
                           ELSE [listeners EXCEPT ![key] = rest]
    /\ subscribed' = subscribed \ {<<key, l>>}
    /\ UNCHANGED emitting
    /\ BusOnly

\* the listeners emit collects: the specific ones, then the wildcard ones
Collected(type) ==
    AddAll(AddAll(<<>>, Members(BusGet(listeners, type))),
           Members(BusGet(listeners, Wildcard)))

\* emit(event) up to its await: every collected listener is called, in
\* order; what each call does is the listener's choice
Emit(type) ==
    /\ emitting.state # "awaiting"
    /\ \E invocations \in {Collected(type)} :
       \E outcomes \in [DOMAIN invocations -> Outcomes] :
         emitting' =
           [state |-> "awaiting", type |-> type,
            targets |-> {l \in Listeners :
                            <<type, l>> \in subscribed \/ <<Wildcard, l>> \in subscribed},
            invocations |-> invocations, outcomes |-> outcomes, logged |-> {}]
    /\ UNCHANGED <<listeners, subscribed>>
    /\ BusOnly

\* the promise of the wrapper of the i-th call: the catch logs the error
Wrapped(outcome) ==
    [result |-> "fulfilled", logged |-> outcome = "throws"]

\* Promise.all over the wrappers settles and emit returns
EmitSettles ==
    /\ emitting.state = "awaiting"
    /\ \E wrappers \in {[i \in DOMAIN emitting.outcomes |->
                            Wrapped(emitting.outcomes[i])]} :
         emitting' =
           [emitting EXCEPT
              !.state = IF \A i \in DOMAIN wrappers : wrappers[i].result = "fulfilled"
                        THEN "resolved" ELSE "rejected",
              !.logged = {i \in DOMAIN wrappers : wrappers[i].logged}]
    /\ UNCHANGED <<listeners, subscribed>>
    /\ BusOnly

InitBus ==
    /\ NoCoordinator
    /\ NoAssembler
    /\ NoCaller
    /\ NoSearch
    /\ NoClient
    /\ NoRemote
    /\ NoLater

NextBus ==
    \/ \E key \in BusKeys, l \in Listeners : Subscribe(key, l)
    \/ \E key \in BusKeys, l \in Listeners : Unsubscribe(key, l)
    \/ \E type \in EventTypes : Emit(type)
    \/ EmitSettles

SpecBus == InitBus /\ [][NextBus]_vars

(***************************************************************************)
(* PluginManager                                                           *)
(***************************************************************************)
Plugins == 1..MaxPlugins

\* the events field of the handshake request a plugin sends
HandshakeEvents == {None, Some({Wildcard}), Some({"SyncStarted"})}

\* the ways waitForHandshake rejects
HandshakeFailures == {"failed", "timeout", "exit"}

\* the components outside the manager are not in use
ManagerOnly ==
    UNCHANGED <<syncVars, asmVars, callerVars, searchVars, clientVars, remoteVars,
                feedVars, storeVars, repoVars, busVars>>

\* startAll() is called
StartAll ==
    /\ starting.pc \in {"idle", "done"}
    /\ starting' = [pc |-> "loop", i |-> 1, outcomes |-> <<>>, why |-> ""]
    /\ UNCHANGED <<configs, processes, handles, managerCall>>
    /\ ManagerOnly

\* the loop takes the next config: a name that has a handle is skipped,
\* any other gets a PluginProcess whose start() is awaited
StartOne ==
    /\ starting.pc = "loop"
    /\ starting.i <= Len(configs)
    /\ IF configs[starting.i] \in DOMAIN handles
       THEN starting' = [starting EXCEPT !.i = @ + 1,
                                         !.outcomes = Append(@, "skipped")]
       ELSE starting' = [starting EXCEPT !.pc = "start"]
    /\ UNCHANGED <<configs, processes, handles, managerCall>>
    /\ ManagerOnly

\* events: params.events ?? ['*']
EventsOf(events) == IF events = None THEN {Wildcard} ELSE events[1]

\* the handshake request arrives and start() resolves with the handle
StartResolves(events) ==
    /\ starting.pc = "start"
    /\ \E name \in {configs[starting.i]} :
         /\ processes' = processes \cup {name}
         /\ handles' = [n \in DOMAIN handles \cup {name} |->
                          IF n = name THEN EventsOf(events) ELSE handles[n]]
    /\ starting' = [starting EXCEPT !.pc = "loop", !.i = @ + 1,
                                    !.outcomes = Append(@, "started")]
    /\ UNCHANGED <<configs, managerCall>>
    /\ ManagerOnly

\* start() rejects: the handshake failed, timed out, or the process exited
\* before it; the catch deletes the entries and the loop goes on
StartRejectsAborts(why) ==
    /\ starting.pc = "start"
    /\ starting' = [starting EXCEPT !.pc = "rejected", !.why = why,
                                    !.outcomes = Append(@, "failed")]
    /\ UNCHANGED <<configs, processes, handles, managerCall>>
    /\ ManagerOnly
StartRejects(why) ==
    /\ starting.pc = "start"
    /\ \E name \in {configs[starting.i]} :
         /\ processes' = processes \ {name}
         /\ handles' = [n \in DOMAIN handles \ {name} |-> handles[n]]
    /\ starting' = [starting EXCEPT !.pc = "loop", !.i = @ + 1, !.why = why,
                                    !.outcomes = Append(@, "failed")]
    /\ UNCHANGED <<configs, managerCall>>
    /\ ManagerOnly

\* the loop is over and startAll resolves
StartAllResolves ==
    /\ starting.pc = "loop"
    /\ starting.i > Len(configs)
    /\ starting' = [starting EXCEPT !.pc = "done"]
    /\ UNCHANGED <<configs, processes, handles, managerCall>>
    /\ ManagerOnly

\* the subscription test of broadcast
Subscribes(events, type) == Wildcard \in events \/ type \in events

\* the plugins broadcast pushes a task for
Tasks(type) ==
    {name \in DOMAIN handles :
       name \in processes /\ Subscribes(handles[name], type)}

\* broadcast(event) up to its await: a notification is sent to each
\* subscribed plugin
Broadcast(type) ==
    /\ managerCall.state # "awaiting"
    /\ managerCall' = [op |-> "broadcast", state |-> "awaiting", type |-> type,
                       sent |-> Tasks(type), failed |-> {}, delivered |-> {},
                       prior |-> managerCall.op]
    /\ UNCHANGED <<configs, processes, handles, starting>>
    /\ ManagerOnly

\* every send has settled, each rejection caught and logged, and
\* Promise.all resolves
BroadcastSettles ==
    /\ managerCall.op = "broadcast"
    /\ managerCall.state = "awaiting"
    /\ \E failed \in SUBSET managerCall.sent :
         managerCall' = [managerCall EXCEPT !.state = "resolved",
                                            !.failed = failed,
                                            !.delivered = managerCall.sent \ failed]
    /\ UNCHANGED <<configs, processes, handles, starting>>
    /\ ManagerOnly

\* stopAll() up to its await: stop() is called on every process
StopAll ==
    /\ managerCall.state # "awaiting"
    /\ managerCall' = [op |-> "stopAll", state |-> "awaiting", type |-> "",
                       sent |-> processes, failed |-> {}, delivered |-> {},
                       prior |-> managerCall.op]
    /\ UNCHANGED <<configs, processes, handles, starting>>
    /\ ManagerOnly

\* every stop() has settled, each rejection caught and logged; both maps
\* are cleared
StopAllReturns ==
    /\ managerCall.op = "stopAll"
    /\ managerCall.state = "awaiting"
    /\ \E failed \in SUBSET managerCall.sent :
         managerCall' = [managerCall EXCEPT !.state = "resolved", !.failed = failed]
    /\ processes' = {}
    /\ handles' = [name \in {} |-> {}]
    /\ UNCHANGED <<configs, starting>>
    /\ ManagerOnly

InitManager ==
    /\ NoCoordinator
    /\ NoAssembler
    /\ NoCaller
    /\ NoSearch
    /\ NoClient
    /\ NoRemote
    /\ NoFeed
    /\ NoStore
    /\ NoRepo
    /\ NoBus
    /\ configs = [i \in Plugins |-> i]
    /\ processes = {}
    /\ handles = [name \in {} |-> {}]
    /\ starting = NoStartAll
    /\ managerCall = NoManagerCall

NextManager ==
    \/ StartAll
    \/ StartOne
    \/ \E events \in HandshakeEvents : StartResolves(events)
    \/ \E why \in HandshakeFailures : StartRejects(why)
    \/ StartAllResolves
    \/ \E type \in EventTypes : Broadcast(type)
    \/ BroadcastSettles
    \/ StopAll
    \/ StopAllReturns

SpecManager == InitManager /\ [][NextManager]_vars

(***************************************************************************)
(* Properties                                                              *)
(***************************************************************************)
\* the invocations the model holds a record of: in flight, or returned last
Recorded == {calls[s] : s \in InFlight} \cup (IF done.pc = "idle" THEN {} ELSE {done})

\* the counters after one more call of the fetch a pass in mode m issues
OneMore(f, m) ==
    IF m = "full" THEN [f EXCEPT !.getAllDocuments = @ + 1]
    ELSE [f EXCEPT !.getChanges = @ + 1]

\* C1: at most one pass is in flight, and the Document Store has been
\* asked for a listing or a change feed exactly once per invocation that
\* took the guard; an invocation that found the guard held asked nothing.
C1_OnePassInFlight ==
    /\ Cardinality(InFlight) <= 1
    /\ fetches.getAllDocuments + fetches.getChanges = now
    /\ \A s \in InFlight : fetches = OneMore(calls[s].pre.fetches, calls[s].mode)

\* a sync() arrived while the first pass was awaiting its fetch
C1_Witness ==
    /\ skipped > 0
    /\ \E s \in InFlight : calls[s].pc \in {"getAllDocuments", "getChanges"}
    /\ fetches.getAllDocuments + fetches.getChanges = 1

\* C2: once no pass is in flight the run guard is free, however the last
\* pass ended.
C2_GuardReleased ==
    InFlight = {} => ~status.isRunning

\* a pass failed, the next one started and failed too, and the guard is free
C2_Witness ==
    /\ InFlight = {}
    /\ done.pc = "rejected"
    /\ done.pass = 2
    /\ done.pre.error # Absent
    /\ ~status.isRunning

\* C3: when a pass issues its State Store write, and ever after, its bulk
\* upsert and its bulk delete have completed and the repository shows them;
\* the State Store is what the pass found until that write returns.
C3_CursorAfterNoteWrites ==
    \A s \in InFlight :
        LET c == calls[s]
            deletedSet == {c.deletedIds[i] : i \in 1..Len(c.deletedIds)}
        IN  /\ c.persisted = 0 => stateStorage = c.pre.stateStorage
            /\ (c.pc = "updateState" \/ c.persisted > 0) =>
                 /\ Len(c.notesToSave) > 0 => c.saved = 1
                 /\ Len(c.deletedIds) > 0 => c.deleted = 1
                 /\ deletedSet \cap DOMAIN notes = {}
                 /\ \A i \in 1..Len(c.notesToSave) :
                      c.notesToSave[i].id \in DOMAIN notes \cup deletedSet

\* an incremental pass has written the cursor after an upsert and a delete
C3_Witness ==
    \E s \in InFlight :
        /\ calls[s].mode = "incremental"
        /\ calls[s].persisted = 1
        /\ calls[s].saved = 1
        /\ calls[s].deleted = 1

\* C4: a pass that finds no cursor in the status asks for the listing and
\* not for changes; a pass that finds a cursor asks for the changes since
\* exactly that cursor and not for the listing; and a pass that resolved
\* after writing the State Store has left a cursor for the next one.
C4_ModeSelection ==
    /\ \A c \in Recorded :
         IF c.pre.lastSeq = Absent
         THEN fetches = [c.pre.fetches EXCEPT !.getAllDocuments = @ + 1]
         ELSE /\ fetches = [c.pre.fetches EXCEPT !.getChanges = @ + 1]
              /\ c.since = c.pre.lastSeq
    /\ (done.pc = "resolved" /\ done.persisted > 0) =>
         /\ status.lastSeq # Absent
         /\ status.lastSeq = stateStorage.lastSeq

\* the second pass asks for the changes since the cursor of the first,
\* which was a full pass
C4_Witness ==
    \E s \in InFlight :
        /\ calls[s].pass = 2
        /\ calls[s].pc = "getChanges"
        /\ calls[s].pre.fetches = [getAllDocuments |-> 1, getChanges |-> 0]
        /\ calls[s].since = stateStorage.lastSeq
        /\ calls[s].pre.stateStorage.lastSyncTime = 1

\* the note a record surfaces as
SurfacedNotes ==
    {[id |-> d._id, path |-> d.path, content |-> d.asm, mtime |-> d.mtime] :
        d \in {e \in Docs : Surfaceable(e) /\ e.asm \in Contents}}

\* C5: every note in the repository, and every note a pass is about to
\* write, is the note of a record that has a path, is of type newnote or
\* plain, is not tombstoned and has no ':' in its id; and only such records
\* are handed to the assembler.
C5_OnlyNotesSurface ==
    /\ \A id \in DOMAIN notes : notes[id] \in SurfacedNotes /\ notes[id].id = id
    /\ \A s \in InFlight :
         /\ calls[s].strict
         /\ \A i \in 1..Len(calls[s].notesToSave) :
              calls[s].notesToSave[i] \in SurfacedNotes

\* a pass that was fed a record that is no note, next to one that is, has
\* written the repository and resolved
C5_Witness ==
    /\ done.pc = "resolved"
    /\ done.filtered > 0
    /\ done.okCount > 0
    /\ done.saved = 1

\* C6 as claimed: every pass that resolved has written the State Store.
C6_Original ==
    done.pc = "resolved" => done.persisted > 0

\* C6: a pass that resolved has written the State Store exactly once, with
\* the cursor now in the status and the time of the pass, unless it was an
\* incremental pass with an empty feed, which leaves the State Store as it
\* found it.
C6_CursorRewritten ==
    done.pc = "resolved" =>
        IF done.empty
        THEN /\ done.mode = "incremental"
             /\ done.persisted = 0
             /\ stateStorage = done.pre.stateStorage
        ELSE /\ done.persisted = 1
             /\ stateStorage = [lastSeq |-> status.lastSeq, lastSyncTime |-> done.pass]

\* an incremental pass with entries resolved after its State Store write
C6_Witness ==
    /\ done.pc = "resolved"
    /\ done.mode = "incremental"
    /\ ~done.empty
    /\ done.persisted = 1
    /\ stateStorage.lastSeq # done.pre.stateStorage.lastSeq

\* C7: after initialize() and before the first pass, an empty repository
\* goes with no cursor, in the status and in the State Store; with notes in
\* the repository the status holds the stored cursor.
C7_InitializeChecksRepository ==
    (initialized /\ now = 0) =>
        IF count(notes) = 0
        THEN status.lastSeq = Absent /\ stateStorage.lastSeq = Absent
        ELSE status.lastSeq = stateStorage.lastSeq

\* C8: when the last pass rejected, the status reports failure with the
\* message of the error the caller received, and the guard is free.
C8_FailureRecorded ==
    done.pc = "rejected" =>
        /\ done.error \in Msgs
        /\ status.error = done.error
        /\ ~status.lastSyncSuccess
        /\ ~status.isRunning

\* the State Store write of a full pass failed, after the success flag
\* had been set
C8_Witness ==
    /\ done.pc = "rejected"
    /\ done.mode = "full"
    /\ done.at = "updateState"
    /\ done.saved = 1

\* C9: a pass that resolved reports success, no error, and a count equal to
\* the number of fed note records the assembler answered with content; it
\* wrote them in one bulk upsert, or issued none when there were none.
C9_PerRecordTolerance ==
    /\ (done.pc = "resolved" /\ ~done.empty) =>
         /\ status.lastSyncSuccess
         /\ status.error = Absent
         /\ status.documentsCount = done.okCount
         /\ done.saved = IF done.okCount > 0 THEN 1 ELSE 0
    /\ \A s \in InFlight :
         /\ Len(calls[s].notesToSave) = calls[s].okCount
         /\ calls[s].saved <= 1

\* after a failed pass, a pass fed one record that fails to assemble and
\* one that assembles has resolved
C9_Witness ==
    /\ done.pc = "resolved"
    /\ done.badCount > 0
    /\ done.okCount > 0
    /\ done.pre.error # Absent

\* C10: an incremental pass with an empty feed leaves the repository, the
\* State Store and the cursor in the status as it found them, reports
\* success with a count of 0 and no error, and sets lastSyncTime to its time.
C10_EmptyFeed ==
    (done.pc = "resolved" /\ done.empty) =>
        /\ notes = done.pre.notes
        /\ stateStorage = done.pre.stateStorage
        /\ status.lastSeq = done.pre.lastSeq
        /\ status.lastSyncSuccess
        /\ status.error = Absent
        /\ status.documentsCount = 0
        /\ status.lastSyncTime = done.pass
        /\ status.lastSyncTime > done.pre.lastSyncTime

\* an empty feed after a failed pass, with a note in the repository
C10_Witness ==
    /\ done.pc = "resolved"
    /\ done.empty
    /\ done.pre.error # Absent
    /\ count(notes) > 0

\* C11: an incremental pass that resolved after a feed with entries has left
\* the string form of the feed's last_seq as the cursor, in the status and in
\* the State Store, whatever became of the entries.
C11_CursorIsFeedLastSeq ==
    (done.pc = "resolved" /\ done.mode = "incremental" /\ ~done.empty) =>
        /\ status.lastSeq = JsString(done.last_seq)
        /\ stateStorage.lastSeq = JsString(done.last_seq)

\* a feed of which no entry became a note or a deletion moved the cursor to
\* a last_seq the store reported as a number
C11_Witness ==
    /\ done.pc = "resolved"
    /\ done.mode = "incremental"
    /\ ~done.empty
    /\ done.okCount = 0 /\ done.saved = 0 /\ done.deleted = 0
    /\ done.last_seq.kind = "number"
    /\ stateStorage.lastSeq = "7"
    /\ done.pre.lastSeq = "8-b"

\* C12: after an incremental pass that resolved, get(id) is absent for every
\* note id the feed carried a deletion entry for.
C12_DeletionRemovesNote ==
    (done.pc = "resolved" /\ done.mode = "incremental") =>
        \A id \in done.gone :
            ~Includes(id, ":") => get(notes, id) = NoNote

\* a deletion entry removed a note the repository held, and a deletion entry
\* for an id that was never stored went through as well
C12_Witness ==
    /\ done.pc = "resolved"
    /\ done.mode = "incremental"
    /\ done.gone = {IdA, IdB}
    /\ IdA \in DOMAIN done.pre.notes
    /\ IdB \notin DOMAIN done.pre.notes
    /\ done.deleted = 1

\* C13: after a pass that resolved, the repository holds no note whose
\* record the pass fetched with a deletion marker, and after a full pass no
\* note whose record is missing from the listing.
C13_DeletedUpstreamRemoved ==
    done.pc = "resolved" =>
        \A id \in DOMAIN notes :
            /\ id \notin done.gone
            /\ done.mode = "full" => id \in done.listed

\* the content a payload stands for: the text behind its base64 form in a
\* vault without a passphrase; with one, the plaintext of a marked payload
\* and an unmarked payload as it is
TextOf(payload, pass) ==
    IF pass = ""
    THEN (IF payload = PayloadA THEN <<"A">> ELSE <<"B">>)
    ELSE IF payload = CipherC THEN <<"C">> ELSE payload

\* the texts of a sequence of payloads, one after the other
RECURSIVE TextsOf(_, _)
TextsOf(payloads, pass) ==
    IF payloads = <<>> THEN <<>>
    ELSE TextOf(Head(payloads), pass) \o TextsOf(Tail(payloads), pass)

\* a source of content of a record is there: set and not empty
Has(opt) == opt # None /\ opt[1] # <<>>

\* the source the specification has assembleDocument use
Chosen(doc) ==
    IF Has(doc.data) THEN "data"
    ELSE IF Has(doc.eden) THEN "eden"
    ELSE IF Has(doc.children) THEN "children"
    ELSE "none"

\* the payloads of the entries of an eden map, by ascending epoch
RECURSIVE ByEpoch(_)
ByEpoch(entries) ==
    IF entries = {} THEN <<>>
    ELSE LET first == CHOOSE e \in entries : \A o \in entries : e.epoch <= o.epoch
         IN  <<first.data>> \o ByEpoch(entries \ {first})

\* e is a prefix of f
IsPrefix(e, f) == Len(e) <= Len(f) /\ e = SubSeq(f, 1, Len(e))

\* the entries of the eden map, and the rows of the bulk result, as sets
EdenSet == {asm.doc.eden[1][i] : i \in 1..Len(asm.doc.eden[1])}
RowSet == {asm.chunkDocs[i] : i \in 1..Len(asm.chunkDocs)}

\* the bulk fetch of the invocation has returned rows
Fetched == asm.pc \in {"decrypt", "returned"} /\ asm.outcome.error # <<"ECONNREFUSED">>

\* the positions of the children list whose id the rows lack, or hold
\* without data
BadAt18 ==
    {i \in 1..Len(asm.doc.children[1]) :
        \A r \in RowSet : r.id = asm.doc.children[1][i] => r.doc.data \in {None, Some(<<>>)}}

\* C14: an invocation draws on one source only, the first of data, eden and
\* children that is there: the decoder is handed payloads of that source
\* alone, the content returned is the text of that source alone, and the
\* store is asked for chunks only when the source is the children list.
C14_StrictPriority ==
    asm.pc # "idle" =>
        LET doc == asm.doc
            src == Chosen(doc)
        IN  /\ storageCalls.getDocuments = asm.pre + (IF src = "children" THEN 1 ELSE 0)
            /\ asm.fetched = IF src = "children" THEN <<doc.children[1]>> ELSE <<>>
            /\ src = "data" => IsPrefix(asm.decoded, <<doc.data[1]>>)
            /\ src = "eden" => \A i \in 1..Len(asm.decoded) :
                                  \E e \in EdenSet : asm.decoded[i] = e.data
            /\ src = "children" => \A i \in 1..Len(asm.decoded) :
                                  \E r \in RowSet : Some(asm.decoded[i]) = r.doc.data
            /\ src = "none" => asm.decoded = <<>>
            /\ (asm.pc = "returned" /\ asm.outcome.ok /\ ~asm.isNull) =>
                 asm.outcome.value =
                    CASE src = "data" -> TextOf(doc.data[1], passphrase)
                      [] src = "eden" /\ Len(asm.decoded) = Cardinality(EdenSet) ->
                           TextsOf(asm.decoded, passphrase)
                      [] src = "children" ->
                           TextsOf([i \in 1..Len(doc.children[1]) |->
                                      PayloadOf(doc.children[1][i], passphrase)], passphrase)
                      [] OTHER -> <<"?">>

\* a record with all three sources returned the text of its data field
C14_Witness ==
    /\ asm.pc = "returned"
    /\ Has(asm.doc.data) /\ Has(asm.doc.eden) /\ Has(asm.doc.children)
    /\ asm.outcome = Ok(<<"A">>)
    /\ storageCalls.getDocuments = 0

\* C15: for a record with only a children list whose ids the bulk result
\* all holds with data, the invocation issued one bulk fetch, with the list,
\* and returns the texts of the chunks in the order of the list, whatever
\* the order of the rows; only a failing decrypt can make it throw.
C15_ChildrenInListOrder ==
    (/\ asm.pc = "returned"
     /\ asm.doc.data = None /\ asm.doc.eden = None /\ Has(asm.doc.children)
     /\ Fetched /\ BadAt18 = {}) =>
        /\ asm.fetched = <<asm.doc.children[1]>>
        /\ storageCalls.getDocuments = asm.pre + 1
        /\ ~asm.isNull
        /\ IF asm.outcome.ok
           THEN asm.outcome.value =
                  TextsOf([i \in 1..Len(asm.doc.children[1]) |->
                             PayloadOf(asm.doc.children[1][i], passphrase)], passphrase)
           ELSE passphrase # "" /\ Head(asm.outcome.error) = DecryptPrefix

\* the list names h:b before h:a, the rows came with h:a first
C15_Witness ==
    /\ asm.pc = "returned"
    /\ asm.doc.children = Some(<<"h:b", "h:a">>)
    /\ Len(asm.chunkDocs) = 2 /\ asm.chunkDocs[1].id = "h:a"
    /\ asm.outcome = Ok(<<"B", "A">>)

\* C16: for a record that is assembled from an eden map whose epochs are
\* all different, the content returned is the texts of the entries by
\* ascending epoch, whatever the order of the entries in the map; only a
\* failing decrypt can make the invocation throw.
C16_EdenByEpoch ==
    (/\ asm.pc = "returned"
     /\ Chosen(asm.doc) = "eden"
     /\ \A e, f \in EdenSet : e # f => e.epoch # f.epoch) =>
        /\ ~asm.isNull
        /\ IF asm.outcome.ok
           THEN asm.outcome.value = TextsOf(ByEpoch(EdenSet), passphrase)
           ELSE passphrase # "" /\ Head(asm.outcome.error) = DecryptPrefix

\* the map lists its entry of epoch 2 before its entry of epoch 1
C16_Witness ==
    /\ asm.pc = "returned"
    /\ asm.doc.eden = Some(<<EdenEntry("h:a", PayloadA, 2), EdenEntry("h:b", PayloadB, 1)>>)
    /\ asm.outcome = Ok(<<"B", "A">>)

\* C17: an invocation returns null exactly when the data field is not set
\* or empty, the eden map not set or empty and the children list not set or
\* empty; null is neither an error nor content; and an empty data field is
\* never handed to the decoder.
C17_NullWhenNoSource ==
    asm.pc = "returned" =>
        /\ asm.isNull <=> (~Has(asm.doc.data) /\ ~Has(asm.doc.eden) /\ ~Has(asm.doc.children))
        /\ asm.isNull => asm.outcome.ok /\ asm.decoded = <<>> /\ asm.fetched = <<>>
        /\ \A i \in 1..Len(asm.decoded) : asm.decoded[i] # <<>>
        /\ (asm.doc.data = Some(<<>>) /\ Has(asm.doc.eden)) => asm.strategy = "eden"
        /\ (asm.doc.data = Some(<<>>) /\ ~Has(asm.doc.eden) /\ Has(asm.doc.children)) =>
             asm.strategy = "children"

\* an empty data field, an empty eden map and an empty children list
C17_Witness ==
    /\ asm.pc = "returned"
    /\ asm.isNull
    /\ asm.doc = [data |-> Some(<<>>), eden |-> Some(<<>>), children |-> Some(<<>>)]

\* C18: when the bulk result lacks an id of the children list, or holds it
\* without data, the invocation throws and returns no content; unless a
\* decrypt failed before, the error names the first such id of the list,
\* with the message of its case, and the decoder was handed the chunks
\* before it and none after.
C18_FirstBadChunk ==
    (/\ asm.pc = "returned"
     /\ Chosen(asm.doc) = "children"
     /\ Fetched /\ BadAt18 # {}) =>
        LET children == asm.doc.children[1]
            first == CHOOSE i \in BadAt18 : \A j \in BadAt18 : i <= j
            missing == \A r \in RowSet : r.id # children[first]
            before == [i \in 1..(first - 1) |-> PayloadOf(children[i], passphrase)]
        IN  /\ ~asm.outcome.ok
            /\ asm.outcome.value = <<>>
            /\ IsPrefix(asm.decoded, before)
            /\ \/ /\ asm.outcome.error =
                       <<IF missing THEN "Chunk not found: " ELSE "Chunk has no data: ",
                         children[first]>>
                  /\ asm.decoded = before
               \/ /\ passphrase # ""
                  /\ Head(asm.outcome.error) = DecryptPrefix

\* h:a was decoded, h:b is missing from the rows
C18_Witness ==
    /\ asm.pc = "returned"
    /\ asm.doc.children = Some(<<"h:a", "h:b">>)
    /\ asm.outcome = Err(<<"Chunk not found: ", "h:b">>)
    /\ asm.decoded = <<PayloadA>>

\* C19: the sync-parameters record is asked for at most once, and the
\* cached salt is assigned at most once, whatever decrypt calls are made.
C19_SaltFetchedOnce ==
    syncParams = Some([pbkdf2salt |-> Some(SaltBase64)]) =>
        /\ storageCalls.getDocument <= 1
        /\ saltWrites <= 1

\* C20: a decrypt of a marked payload that starts after the store has
\* answered with no sync-parameters record, or with one that lacks the
\* salt, does not ask the store, and fails.
C20_SaltUnavailableIsFinal ==
    \A k \in DSlots :
        (/\ decrypts[k].pc # "idle"
         /\ decrypts[k].afterNoSalt
         /\ isEncrypted(decrypts[k].data)) =>
            /\ ~decrypts[k].asked
            /\ storageCalls.getDocument = decrypts[k].pre
            /\ decrypts[k].pc = "settled" => ~decrypts[k].outcome.ok

\* the payload starts with the two characters of the marker
Marked(x) == Len(x) >= 2 /\ x[1] = "%" /\ x[2] = "="

\* C21: decrypt(x) of a payload that does not start with '%=' returns x
\* itself and asks the store for nothing, under any passphrase and whether
\* or not the salt can be had.
C21_UnmarkedPassesThrough ==
    \A k \in DSlots :
        (decrypts[k].pc # "idle" /\ ~Marked(decrypts[k].data)) =>
            /\ decrypts[k].pc = "settled"
            /\ decrypts[k].outcome = Ok(decrypts[k].data)
            /\ ~decrypts[k].asked

\* half a marker passes through an adapter without a passphrase after the
\* store has answered that it holds no salt
C21_Witness ==
    \E k \in DSlots :
        /\ decrypts[k].pc = "settled"
        /\ decrypts[k].data = <<"%">>
        /\ decrypts[k].outcome = Ok(<<"%">>)
        /\ decrypts[k].afterNoSalt
        /\ passphrase = ""
        /\ storageCalls.getDocument = decrypts[k].pre

\* what decrypt gives for one input when it succeeds
Plain(x) == IF Marked(x) THEN <<"C">> ELSE x

\* C22: decryptBatch fulfils with one output per input, in the order of
\* the inputs whatever the order in which the decrypts settle; when one
\* decrypt fails the batch rejects, and a batch that has not fulfilled
\* hands out no results.
C22_BatchKeepsInputOrder ==
    /\ batch.pc = "resolved" =>
          /\ Len(batch.results) = Len(batch.chunks)
          /\ \A j \in 1..Len(batch.chunks) :
                /\ batch.results[j] = Plain(batch.chunks[j])
                /\ Marked(batch.chunks[j]) =>
                      batch.chunks[j] = CipherC /\ passphrase = Passphrase
    /\ batch.pc # "resolved" => batch.results = <<>>
    /\ batch.pc = "rejected" => batch.error # <<>>
    /\ \A k \in 1..Len(batch.chunks) :
          (/\ decrypts[k].owner = "batch"
           /\ decrypts[k].pc = "settled"
           /\ ~decrypts[k].outcome.ok) => batch.pc = "rejected"

\* the second input settled first, and the batch fulfilled in input order
C22_Witness ==
    /\ batch.pc = "resolved"
    /\ batch.outOfOrder
    /\ batch.chunks = <<CipherC, PayloadA>>
    /\ batch.results = <<<<"C">>, PayloadA>>

\* a step in which exactly one sync() invocation of the origin takes the
\* guard, and a step in which one finds the guard held
StartedOne(origin) ==
    \E s \in Slots :
        /\ calls[s].pc = "idle"
        /\ calls'[s].pc # "idle"
        /\ calls'[s].origin = origin
        /\ \A t \in Slots \ {s} : calls'[t] = calls[t]
SkippedOne == skipped' = skipped + 1 /\ calls' = calls

\* the invocation in a slot returns in this step
Returns(s) == calls[s].pc # "idle" /\ calls'[s].pc = "idle"

AutoOrigins == {"initial", "timer"}

\* what a step may do to the timer and to the initial invocation
InstallStep ==
    /\ (~syncInterval /\ syncInterval') =>
          /\ timers' = timers + 1
          /\ StartedOne("initial") \/ SkippedOne
    /\ (\E s \in Slots : calls'[s].origin = "initial" /\ calls[s].origin # "initial") =>
          ~syncInterval /\ syncInterval'
    /\ timers' > timers => ~syncInterval /\ syncInterval'

\* C23: a timer exists exactly when a handle is stored, so never two; the
\* step that stores the handle installs one timer and makes one sync()
\* invocation; no other step installs a timer or makes the initial
\* invocation.
C23_OneTimer ==
    /\ [](timers = IF syncInterval THEN 1 ELSE 0)
    /\ [][InstallStep]_vars

\* the timer is installed and the immediate invocation runs a pass
C23_Witness ==
    /\ syncInterval
    /\ timers = 1
    /\ \E s \in Slots : calls[s].pc # "idle" /\ calls[s].origin = "initial"

\* what a step may do when the handle is dropped, a tick fires or an
\* invocation returns
CancelStep ==
    /\ (syncInterval /\ ~syncInterval') =>
          /\ timers' = 0
          /\ UNCHANGED <<status, notes, stateStorage, calls, done, now,
                         fetches, skipped>>
    /\ (\E s \in Slots : calls'[s].origin = "timer" /\ calls[s].origin # "timer") =>
          syncInterval /\ timers > 0
    /\ \A s \in Slots : Returns(s) =>
          /\ done'.pc \in {"resolved", "rejected"}
          /\ done'.pass = calls[s].pass

\* C24: the step that drops the handle removes the timer and touches
\* neither the passes in flight nor what they write; a tick invokes sync()
\* only while a timer is installed; an invocation leaves its slot only by
\* returning; without a handle no timer is left to cancel.
C24_StopOnlyCancelsTimer ==
    /\ [](~syncInterval => timers = 0)
    /\ [][CancelStep]_vars

\* a pass that startAutoSync or a tick began is past its cursor write with the
\* timer cancelled
C24_Witness ==
    /\ ~syncInterval
    /\ timers = 0
    /\ \E s \in Slots :
          /\ calls[s].origin \in AutoOrigins
          /\ calls[s].pc = "count"
          /\ calls[s].mode = "incremental"
          /\ calls[s].saved = 1
          /\ calls[s].persisted = 1
          /\ stateStorage.lastSeq = status.lastSeq

\* the state after, and the step of, a rejection in a callback
CallbackFailure ==
    (done.pc = "rejected" /\ done.origin \in AutoOrigins) =>
        /\ ~done.propagates
        /\ status.error = done.error
        /\ ~status.lastSyncSuccess

CallbackFailureStep ==
    \A s \in Slots :
        (Returns(s) /\ calls[s].origin \in AutoOrigins /\ done'.pc = "rejected") =>
            UNCHANGED <<timers, syncInterval>>

\* C25: the rejection of an invocation made by startAutoSync or by a tick
\* does not propagate, is recorded in the status, and leaves the timer and
\* its handle as they were.
C25_CallbackFailureLogged == []CallbackFailure /\ [][CallbackFailureStep]_vars

\* a pass begun by a tick has failed and the timer is still installed
C25_Witness ==
    /\ done.pc = "rejected"
    /\ done.origin = "timer"
    /\ status.error = done.error
    /\ syncInterval
    /\ timers = 1

\* a step that is none of the coordinator's
CallerStep ==
    UNCHANGED <<syncInterval, timers, notes, stateStorage, calls, now,
                initialized, fetches, skipped, done>>

\* the fields the caller has not assigned are as they were returned
AsReturned ==
    returned.held =>
        \A f \in StatusFields \ returned.written :
            View(returned)[f] = returned.at[f]

Blank(q) == \A i \in 1..Len(q) : q[i] \in WhiteSpace

\* the notes a search is to return: none for a blank query, else those
\* whose path or content holds the query, whatever the case of either
Expected(ns, q) ==
    Filter(ns, [i \in 1..Len(ns) |->
                  /\ ~Blank(q)
                  /\ \/ IncludesString(toLowerCase(ns[i].path), toLowerCase(q))
                     \/ IncludesString(toLowerCase(ns[i].content), toLowerCase(q))])

\* C27: search(query) returns the notes whose path or content contains the
\* query without regard to case, and no note at all when the query is
\* blank, in the memory and in the disk repository.
C27_SearchBlankIsEmpty ==
    query # None => hits = Expected(stored, query[1])

\* the ids of the entries of a map
KeysOf(m) == {m[i].id : i \in 1..Len(m)}

\* C28: getDocuments of an empty list returns an empty map without a call
\* of the store; of a list with ids it makes one call, and when that call
\* answers it returns a map with exactly the asked ids the store holds a
\* record of, each with its record: an id the store does not know is left
\* out and raises nothing.
C28_BulkFetchSkipsMissing ==
    bulk.pc = "returned" =>
        IF bulk.ids = <<>>
        THEN bulk.outcome = Ok(<<>>) /\ bulk.fetches = 0
        ELSE /\ bulk.fetches = 1
             /\ bulk.outcome.ok <=> ~bulk.threw
             /\ bulk.outcome.ok =>
                  /\ KeysOf(bulk.outcome.value) =
                       {id \in {bulk.ids[i] : i \in 1..Len(bulk.ids)} : couch[id] = "doc"}
                  /\ \A i \in 1..Len(bulk.outcome.value) :
                        bulk.outcome.value[i].doc = BulkDoc(bulk.outcome.value[i].id)

\* one of two ids is unknown to the store: the map holds the other
C28_Witness ==
    /\ bulk.pc = "returned"
    /\ bulk.ids = <<"h:a", "h:b">>
    /\ couch["h:a"] = "doc"
    /\ couch["h:b"] = "missing"
    /\ bulk.outcome = Ok(<<[id |-> "h:a", doc |-> BulkDoc("h:a")]>>)

\* the cursor in the status covers the write with sequence number i
Covered(i) == Truthy(status.lastSeq) /\ i <= SeqNumber(status.lastSeq)

\* the repository shows what the write with sequence number i left
Applied(i) ==
    IF remote[i].del THEN remote[i].id \notin DOMAIN notes
    ELSE /\ remote[i].id \in DOMAIN notes
         /\ notes[remote[i].id].mtime = i

\* the write stands in the database, the cursor is past it and the
\* repository does not show it
Missed(i) ==
    /\ i \in Current(remote) /\ remote[i] \in {Write(remote[i].id, TRUE), Write(remote[i].id, FALSE)}
    /\ Covered(i) /\ ~Applied(i)

\* a full pass has not read the sequence token while it lists and writes
TokenReadLast ==
    \A s \in Slots :
        calls[s].mode = "full" /\ calls[s].pc \in {"getAllDocuments", "saveMany", "getDatabaseInfo"}
            => status.lastSeq = calls[s].pre.lastSeq

\* no step applies a missed write that still stands
MissedStep ==
    \A i \in 1..Len(remote) : Missed(i) /\ i \in Current(remote') => Missed(i)'

\* C29: a full pass reads the sequence token after its listing and its
\* note writes, and a write that landed in between, once the cursor is
\* past it, is never applied by a later pass for as long as it stands; the
\* witness is an execution in which that happens.
C29_RaceLosesWrite == []TokenReadLast /\ [][MissedStep]_vars

\* a write landed between the listing and the token read of the full pass;
\* a later incremental pass applied a newer write and not that one
C29_Witness ==
    /\ InFlight = {}
    /\ done.pc = "resolved" /\ done.mode = "incremental" /\ done.saved = 1
    /\ \E i, j \in 1..Len(remote) :
         /\ i < j
         /\ Missed(i)
         /\ j \in Current(remote) /\ ~remote[j].del /\ Applied(j)

\* the last pass was rejected at a bulk write of the Note Repository
RepositoryWriteFailed ==
    done.pc = "rejected" /\ done.at \in {"saveMany", "deleteMany"}

\* C30: when saveMany or deleteMany throws, the pass ends rejected with the
\* cursor where the pass found it, in status.lastSeq and in the State
\* Store, with lastSyncSuccess false and the error in the status, and the
\* next sync() is of the same mode from the same cursor.
C30_RepositoryFailureKeepsCursor ==
    RepositoryWriteFailed =>
        /\ status.lastSeq = done.pre.lastSeq
        /\ stateStorage = done.pre.stateStorage
        /\ ~status.lastSyncSuccess
        /\ status.error = done.error /\ done.error \in Msgs
        /\ ~status.isRunning
        /\ ChooseMode(status) = done.mode
        /\ done.mode = "incremental" => status.lastSeq = done.since

\* an incremental pass whose feed moved the sequence token failed at its
\* bulk delete, after its bulk upsert was applied
C30_Witness ==
    /\ RepositoryWriteFailed
    /\ done.mode = "incremental" /\ done.at = "deleteMany" /\ done.saved = 1
    /\ JsString(done.last_seq) # done.since
    /\ notes # done.pre.notes

\* C31: after a sync() call that threw, status.lastSeq is what the call
\* found, and it equals the cursor in the State Store whenever the two were
\* equal before the call.
C31_FailureKeepsMemoryCursor ==
    done.pc = "rejected" /\ InFlight = {} =>
        /\ status.lastSeq = done.pre.lastSeq
        /\ done.pre.lastSeq = done.pre.stateStorage.lastSeq
             => status.lastSeq = stateStorage.lastSeq

\* an entry carries a deletion flag, its own or its document's
Flagged(c) == c.deleted \/ (c.hasDoc /\ (c.doc.deleted \/ c.doc._deleted))

\* an entry of an internal record
Internal(c) == \E i \in 1..Len(c.id) : c.id[i] = ":"

\* the ids of the entries classified deleted, in feed order
DeletedOf(results) ==
    LET keep(c) == ~Internal(c) /\ Flagged(c)
        kept == SelectSeq(results, keep)
    IN  [i \in 1..Len(kept) |-> kept[i].id]

\* the documents of the entries classified changed, in feed order
ChangedOf(results) ==
    LET keep(c) == ~Internal(c) /\ ~Flagged(c) /\ c.hasDoc
        kept == SelectSeq(results, keep)
    IN  [i \in 1..Len(kept) |-> kept[i].doc]

\* every entry of the feed for the id is ignored: internal, or neither
\* flagged nor carrying a document
Ignored(results, id) ==
    \A i \in 1..Len(results) :
        results[i].id = id => Internal(results[i]) \/ (~Flagged(results[i]) /\ ~results[i].hasDoc)

\* the pass the feed answered, while it writes
FeedPassWrites(s) ==
    calls[s].pass = feed.pass /\ calls[s].pc \in {"saveMany", "deleteMany", "updateState", "count"}

\* the pass the feed answered has returned
FeedPassDone ==
    feed.pass > 0 /\ done.pass = feed.pass /\ done.pc = "resolved" /\ InFlight = {}

\* C32: of the entries of a feed, those whose id contains ':' are left
\* out; of the others those with a deletion flag, on the entry or on its
\* document, are deleted and those with a document are handed on as
\* changed; a record all of whose entries are left out or lack a document
\* keeps its note, and the cursor is the feed's last_seq all the same.
C32_FeedClassification ==
    /\ \A s \in Slots : FeedPassWrites(s) =>
          /\ calls[s].deletedIds = DeletedOf(feed.results)
          /\ calls[s].pc = "saveMany" =>
                calls[s].notesToSave = processDocuments(ChangedOf(feed.results)).notesToSave
    /\ FeedPassDone /\ feed.results # <<>> =>
          /\ status.lastSeq = JsString(done.last_seq)
          /\ \A id \in NoteIds \cup {IdInternal, IdChunk} :
                Ignored(feed.results, id) => get(notes, id) = get(done.pre.notes, id)

\* a feed with a deletion entry of an internal record and an entry of a
\* stored note without a document: nothing is deleted, the note is kept
\* and the cursor has moved
C32_Witness ==
    /\ FeedPassDone
    /\ \E i, j \in 1..Len(feed.results) :
         /\ Internal(feed.results[i]) /\ feed.results[i].deleted
         /\ feed.results[j].id = IdA /\ ~Flagged(feed.results[j]) /\ ~feed.results[j].hasDoc
    /\ done.deleted = 0 /\ done.saved = 0
    /\ IdA \in DOMAIN notes
    /\ status.lastSeq = JsString(done.last_seq) /\ status.lastSeq # done.since

\* the save with sequence number i left a revision that does not become a
\* note, and no later write has replaced it
Broken(i) == i \in Current(remote) /\ remote[i] \in BrokenWrites(remote[i].id)

\* the sequence numbers of the entries a feed holds
FeedSeqs(db, since) ==
    {i \in Current(db) : i > SeqNumber(since)}

\* an incremental pass over a feed with entries has returned
IncrementalDone ==
    done.pc = "resolved" /\ done.mode = "incremental" /\ ~done.empty /\ InFlight = {}

\* the feed of the pass that returned held the revision of write i
InFeed(i) == SeqNumber(done.since) < i /\ i <= done.last_seq.num

\* after an incremental pass the cursor is the feed's last_seq, and a
\* record whose revision in the feed was broken has the note the pass found
CursorPastBroken ==
    IncrementalDone =>
        /\ status.lastSeq = JsString(done.last_seq)
        /\ stateStorage.lastSeq = status.lastSeq
        /\ \A i \in 1..Len(remote) :
              Broken(i) /\ InFeed(i) =>
                  /\ Covered(i)
                  /\ get(notes, remote[i].id) = get(done.pre.notes, remote[i].id)

\* a pass that waits for its feed is not sent a broken revision the cursor
\* is past
NotFetchedAgain ==
    \A s \in Slots : calls[s].pc = "getChanges" =>
        \A i \in 1..Len(remote) :
            Broken(i) /\ Covered(i) => i \notin FeedSeqs(remote, calls[s].since)

\* no step changes the note of a record whose broken revision the cursor
\* is past, for as long as that revision stands
BrokenStep ==
    \A i \in 1..Len(remote) :
        Broken(i) /\ Covered(i) /\ i \in Current(remote')
            => get(notes', remote[i].id) = get(notes, remote[i].id) /\ Covered(i)'

\* C33: when the revision an incremental pass fetches for a changed record
\* fails to assemble or is not a note any more, the cursor advances to the
\* feed's last_seq, the repository keeps what it held for the record, and
\* later passes neither fetch the revision again nor touch the note until
\* the record is written again.
C33_BrokenChangeIsPassedOver ==
    [](CursorPastBroken /\ NotFetchedAgain) /\ [][BrokenStep]_vars

\* a pass fetched a broken revision of one record and moved the cursor past
\* it; the next pass fetched and stored a later save of another record
\* only, and the first record still has no note
C33_Witness ==
    /\ IncrementalDone
    /\ done.pass = 2 /\ done.pre.lastSeq = "1" /\ done.saved = 1
    /\ Broken(1) /\ Covered(1) /\ ~InFeed(1)
    /\ remote[1].id \notin DOMAIN notes
    /\ Len(remote) = 2 /\ remote[2].id \in DOMAIN notes

\* what a step in which a sync() invocation finds the guard held leaves
\* alone; a timer appears in such a step only when it is startAutoSync that
\* makes the invocation
SkipStep ==
    SkippedOne =>
        /\ status' = status
        /\ notes' = notes
        /\ stateStorage' = stateStorage
        /\ fetches' = fetches
        /\ now' = now
        /\ \/ syncInterval' = syncInterval /\ timers' = timers
           \/ ~syncInterval /\ syncInterval' /\ timers' = timers + 1

\* the step in which a pass returns starts no invocation and no fetch
NoReplayStep ==
    (\E s \in Slots : Returns(s)) =>
        /\ \A t \in Slots : calls'[t].pc = "idle" \/ calls'[t] = calls[t]
        /\ fetches' = fetches
        /\ now' = now

SkipOrReturnStep == SkipStep /\ NoReplayStep

\* C34: a sync() invocation that finds the guard held leaves the status,
\* the Note Repository, the State Store and the timer as they are and
\* starts no fetch, and the return of the running pass starts none either.
C34_SkippedCallChangesNothing == [][SkipOrReturnStep]_vars

\* a sync() found the guard held; the pass that held it has returned, and
\* one fetch is all the Document Store was asked for
C34_Witness ==
    /\ InFlight = {}
    /\ skipped > 0
    /\ done.pc = "resolved" /\ done.pass = 1 /\ now = 1
    /\ fetches.getAllDocuments + fetches.getChanges = 1

\* C35: in every state, in the middle of a pass too, a status that reports
\* success carries no error, and the status reports a running pass only
\* while an invocation that took the guard has not returned.
C35_StatusIsConsistent ==
    /\ status.lastSyncSuccess => status.error = Absent
    /\ status.isRunning => InFlight # {}

\* in the middle of a pass that follows a failed one: the pass has made its
\* success update and still holds the guard
C35_Witness ==
    /\ status.isRunning /\ status.lastSyncSuccess /\ status.error = Absent
    /\ \E s \in InFlight : calls[s].pre.error # Absent

\* C36: with collaborators that answer every call, a pass that took the
\* guard gives it back; and with a timer installed and passes left to
\* start, an idle coordinator starts a pass again unless the timer is
\* cancelled.
C36_PassesEndAndRestart ==
    /\ status.isRunning ~> ~status.isRunning
    /\ (timers > 0 /\ ~status.isRunning /\ now < MaxPasses)
          ~> (status.isRunning \/ timers = 0)

\* the timer started a second pass after a first one failed, and that pass
\* has returned the guard
C36_Witness ==
    /\ timers > 0
    /\ ~status.isRunning /\ InFlight = {}
    /\ done.pass = 2 /\ done.origin = "timer" /\ done.pc = "resolved"
    /\ done.pre.error # Absent

\* two state objects have the same value for every key
SameState(a, b) == \A k \in StateKeys : Lookup(a, k) = Lookup(b, k)

\* the previous state with the properties of partial laid over it
Overridden(previous, partial, k) ==
    IF HasKey(partial, k) THEN Lookup(partial, k) ELSE Lookup(previous, k)

\* C37: after updateState(partial) the stored state is the previous one
\* (empty when there was no file) with partial's properties laid over it;
\* getState after saveState(s) returns s; resetState leaves no state,
\* whether or not there was one, and getState after it returns the empty
\* state.
C37_StateStoreSemantics ==
    /\ storeCall.op = "updateState" =>
          /\ stateFile # None
          /\ \A k \in StateKeys :
                Lookup(ReadState(stateFile), k)
                    = Overridden(ReadState(storeCall.before), storeCall.arg, k)
    /\ storeCall.op = "getState" /\ storePrior.op = "saveState" =>
          SameState(storeCall.out, storePrior.arg)
    /\ storeCall.op = "resetState" => stateFile = None
    /\ storeCall.op = "getState" /\ storePrior.op = "resetState" => storeCall.out = <<>>

\* updateState({ lastSeq: '200' }) on a file holding both fields: the time
\* is kept
C37_Witness ==
    /\ storeCall.op = "updateState"
    /\ storeCall.arg = <<Property("lastSeq", "200")>>
    /\ storeCall.before = Some(<<Property("lastSeq", "100"), Property("lastSyncTime", "100")>>)
    /\ stateFile = Some(<<Property("lastSeq", "200"), Property("lastSyncTime", "100")>>)

\* the ids a repository is expected to hold
WrittenIds == {id \in RepoIds : written[id] # None}

\* C38: after any sequence of save, saveMany, delete and deleteMany the
\* repository holds, under each id, the note saved last and not deleted
\* since, and nothing under any other id; get and count answer accordingly;
\* a save under a stored id leaves count as it was, and a delete of an id
\* that is not stored leaves the repository as it was.
C38_RepositoryHoldsLastSaved ==
    /\ DOMAIN notes = WrittenIds
    /\ \A id \in WrittenIds : notes[id] = written[id][1]
    /\ count(notes) = Cardinality(WrittenIds)
    /\ repoCall.op = "count" => repoCall.out = Cardinality(WrittenIds)
    /\ repoCall.op = "get" =>
         repoCall.out = (IF written[repoCall.arg] = None THEN NoNote
                         ELSE written[repoCall.arg][1])
    /\ (repoCall.op = "save" /\ repoCall.arg.id \in DOMAIN repoCall.before) =>
         /\ count(notes) = count(repoCall.before)
         /\ notes[repoCall.arg.id] = repoCall.arg
    /\ (repoCall.op = "delete" /\ repoCall.arg \notin DOMAIN repoCall.before) =>
         notes = repoCall.before

\* a deleteMany named a stored id and one that was not stored, and left
\* one note
C38_Witness ==
    /\ repoCall.op = "deleteMany"
    /\ \E i, j \in DOMAIN repoCall.arg :
         /\ repoCall.arg[i] \in DOMAIN repoCall.before
         /\ repoCall.arg[j] \notin DOMAIN repoCall.before
    /\ \E id \in DOMAIN notes : notes[id].content = "new"
    /\ count(notes) = 1

\* the number of calls of listener l the emit call made
Invoked(l) == Cardinality({i \in DOMAIN emitting.invocations : emitting.invocations[i] = l})

\* C39: an emit call calls each listener that was subscribed to the type of
\* the event or to '*' when emit was called exactly once, also one
\* subscribed under both, and calls no other listener; whatever the
\* listeners do, throwing included, emit resolves.
C39_EmitCallsEachSubscriberOnce ==
    /\ emitting.state # "none" =>
         \A l \in Listeners :
           Invoked(l) = (IF l \in emitting.targets THEN 1 ELSE 0)
    /\ emitting.state # "rejected"
    /\ emitting.state = "resolved" =>
         emitting.logged = {i \in DOMAIN emitting.outcomes :
                              emitting.outcomes[i] = "throws"}

\* an emit resolved after it called a listener that threw, which is
\* subscribed under the type and under '*', and another listener after it
C39_Witness ==
    /\ emitting.state = "resolved"
    /\ Len(emitting.invocations) >= 2
    /\ emitting.outcomes[1] = "throws"
    /\ <<emitting.type, emitting.invocations[1]>> \in subscribed
    /\ <<Wildcard, emitting.invocations[1]>> \in subscribed

\* neither startAll nor broadcast nor stopAll rejects; a startAll that
\* resolved went through every config; a broadcast that resolved reached
\* every plugin it sent to whose own send did not fail
ManagerCallsResolve ==
    /\ starting.pc # "rejected"
    /\ managerCall.state # "rejected"
    /\ starting.pc = "done" => DOMAIN starting.outcomes = DOMAIN configs
    /\ (managerCall.op = "broadcast" /\ managerCall.state = "resolved") =>
         managerCall.delivered = managerCall.sent \ managerCall.failed

\* a start() that settles: after a rejection neither map has an entry
\* under the name and the loop is at the next config; after a handshake
\* both maps have one
StartSettlesStep ==
    (starting.pc = "start" /\ starting' # starting) =>
      /\ starting'.pc = "loop"
      /\ starting'.i = starting.i + 1
      /\ IF starting'.outcomes[starting.i] = "failed"
         THEN /\ configs[starting.i] \notin processes'
              /\ configs[starting.i] \notin DOMAIN handles'
         ELSE /\ configs[starting.i] \in processes'
              /\ configs[starting.i] \in DOMAIN handles'

\* a broadcast sends to the plugins that have a handle with the type of
\* the event or '*' among its events, and to no other
BroadcastStep ==
    (managerCall'.op = "broadcast" /\ managerCall'.state = "awaiting"
       /\ managerCall' # managerCall) =>
      \A name \in Plugins :
        name \in managerCall'.sent <=>
          /\ name \in DOMAIN handles
          /\ \/ Wildcard \in handles[name]
             \/ managerCall'.type \in handles[name]

\* stopAll returns with both maps empty, whether or not they were
StopAllStep ==
    (managerCall.op = "stopAll" /\ managerCall.state = "awaiting"
       /\ managerCall'.state = "resolved") =>
      /\ processes' = {}
      /\ DOMAIN handles' = {}

ManagerStep == StartSettlesStep /\ BroadcastStep /\ StopAllStep

\* C40: a plugin whose start rejects (handshake failed, timed out, process
\* exited first) has no entry in processes or handles, startAll goes on to
\* the remaining configs and resolves; broadcast sends to exactly the
\* plugins subscribed to the type of the event or to '*', and resolves with
\* the notification delivered wherever the plugin's own send did not fail;
\* stopAll leaves both maps empty, every time it is called.
C40_PluginFailuresAreIsolated == []ManagerCallsResolve /\ [][ManagerStep]_vars

\* startAll resolved after the first plugin timed out and the second was
\* started, and stopAll was called twice in a row
C40_Witness ==
    /\ starting.pc = "done"
    /\ starting.outcomes = <<"failed", "started">>
    /\ starting.why = "timeout"
    /\ managerCall.op = "stopAll"
    /\ managerCall.prior = "stopAll"
    /\ managerCall.state = "resolved"
    /\ processes = {}

====
